---- MODULE Spec2Model ----
(***************************************************************************)
(* Task orchestration engine of pr-agent: the persisted Session and plan,  *)
(* the slash commands that mutate them, and the two "ship" orchestrators   *)
(* (per-task mode and single-session mode) consuming a push-event stream.  *)
(*                                                                         *)
(* Strings that the code inspects with includes()/match() are sequences of *)
(* one-character strings; a streamed text is a sequence of pieces (a word, *)
(* a <task-complete>..</task-complete> marker, the literal "git commit",   *)
(* the literal "completed") separated by blanks.                           *)
(***************************************************************************)
EXTENDS Integers, Sequences, FiniteSets, TLC

\* ------------------------------------------------------------------------
\* Bounds
\* ------------------------------------------------------------------------

\* longest streamed text, in pieces
MaxText == 2

\* ------------------------------------------------------------------------
\* Characters and task ids
\* ------------------------------------------------------------------------

UpperChars ==
  {"A","B","C","D","E","F","G","H","I","J","K","L","M",
   "N","O","P","Q","R","S","T","U","V","W","X","Y","Z"}

DigitChars == {"0","1","2","3","4","5","6","7","8","9"}

\* Task ids as the plan parser accepts them ([\w-]+): the generated shape
\* (U-1, U-2, U-10) and a lower-case one.
IdU1 == <<"U","-","1">>
IdU10 == <<"U","-","1","0">>
IdU2 == <<"U","-","2">>
IdT1 == <<"t","-","1">>

AllIds == {IdU1, IdU2, IdU10, IdT1}

\* the ids a streamed text can mention
WordIds == {IdU1, IdU10, IdT1}

\* s occurs in t as a contiguous substring (String.prototype.includes)
Includes(t, s) ==
  \E i \in 0..(Len(t) - Len(s)) : SubSeq(t, i + 1, i + Len(s)) = s

\* w as a whole matches [A-Z]+-\d+, the capture group of the marker regex
MatchesTaskIdPattern(w) ==
  \E k \in 1..Len(w) :
    /\ \A i \in 1..k : w[i] \in UpperChars
    /\ k + 2 <= Len(w)
    /\ w[k + 1] = "-"
    /\ \A i \in (k + 2)..Len(w) : w[i] \in DigitChars

\* ------------------------------------------------------------------------
\* Tasks, plans, sessions
\* ------------------------------------------------------------------------

TaskStatuses == {"pending", "running", "completed", "failed", "skipped"}

SessionStatuses ==
  {"idle", "planning", "plan_ready", "shipping", "paused", "completed", "error"}

PlanTask(id, deps) == [id |-> id, deps |-> deps, status |-> "pending"]

\* Plans as plan.md can hold them once generated; every task starts pending.
PlanChain == <<PlanTask(IdU1, {}), PlanTask(IdU2, {IdU1}), PlanTask(IdU10, {IdU1, IdU2})>>
PlanIndep == <<PlanTask(IdU1, {}), PlanTask(IdU2, {})>>
PlanPrefix == <<PlanTask(IdU1, {}), PlanTask(IdU10, {})>>
PlanLower == <<PlanTask(IdT1, {}), PlanTask(IdU1, {})>>
PlanCycle == <<PlanTask(IdU1, {IdU2}), PlanTask(IdU2, {IdU1})>>

\* a dependency on an id no task of the plan has
PlanUnknownDep == <<PlanTask(IdU1, {}), PlanTask(IdU2, {IdT1})>>

\* the plans the plan command is given by its generator
GeneratedPlans == {PlanChain, PlanIndep, PlanCycle, PlanUnknownDep}

NoPlan == [exists |-> FALSE, tasks |-> <<>>]

NoSession ==
  [exists |-> FALSE, status |-> "idle", tasks |-> <<>>,
   currentTaskId |-> <<>>, prUrl |-> "", jobId |-> ""]

\* createSession
createSession ==
  [exists |-> TRUE, status |-> "idle", tasks |-> <<>>,
   currentTaskId |-> <<>>, prUrl |-> "", jobId |-> ""]

\* index of the first task with this id, 0 when there is none (Array.find)
FindTask(tasks, id) ==
  IF \E i \in 1..Len(tasks) : tasks[i].id = id
  THEN CHOOSE i \in 1..Len(tasks) :
         /\ tasks[i].id = id
         /\ \A j \in 1..(i - 1) : tasks[j].id # id
  ELSE 0

\* updateSessionStatus
updateSessionStatus(s, status) == [s EXCEPT !.status = status]

\* an update that finds no task
updateTaskStatusNoTask(s, taskId, status, error) == s

\* updateTaskStatus: no effect when the id names no task
updateTaskStatus(s, taskId, status, error) ==
  LET i == FindTask(s.tasks, taskId) IN
  IF i = 0 THEN s
  ELSE [s EXCEPT !.tasks[i].status = status,
                 !.tasks[i].error = IF error # "" THEN error ELSE @]

\* a dependency test that only rules out failed dependencies
DepsNotFailed(tasks, task) ==
  \A depId \in task.deps :
    LET d == FindTask(tasks, depId) IN
    d = 0 \/ tasks[d].status # "failed"

\* the dependency test of getNextTask
DepsCompleted(tasks, task) ==
  \A depId \in task.deps :
    LET d == FindTask(tasks, depId) IN
    d # 0 /\ tasks[d].status = "completed"

IsPending(t) == t.status = "pending"

RECURSIVE FirstRunnable(_, _)
\* the for loop of getNextTask over the pending tasks
FirstRunnable(tasks, pendingTasks) ==
  IF pendingTasks = <<>> THEN <<>>
  ELSE IF DepsCompleted(tasks, Head(pendingTasks)) THEN <<Head(pendingTasks)>>
  ELSE FirstRunnable(tasks, Tail(pendingTasks))

\* a scheduler that returns the first pending task whatever its dependencies
getNextTaskFirstPending(s) ==
  LET pendingTasks == SelectSeq(s.tasks, IsPending) IN
  IF pendingTasks = <<>> THEN <<>> ELSE <<Head(pendingTasks)>>

\* getNextTask: <<task>>, or <<>> for null
getNextTask(s) == FirstRunnable(s.tasks, SelectSeq(s.tasks, IsPending))

CountStatus(tasks, st) == Cardinality({i \in 1..Len(tasks) : tasks[i].status = st})

\* --- IEEE 754 double arithmetic of `(completed / total) * 100`: a number
\* --- is held as a sequence of limbs, most significant first, each below
\* --- Limb, at a scale of 2^-(3 * LimbBits + z)

\* one bit more than a double's significand, in three limbs
LimbBits == 18
Limb == 2 ^ LimbBits

\* the limbs with every carry moved up
Carried(l) ==
  LET c4 == l[4] \div Limb
      c3 == (l[3] + c4) \div Limb
      c2 == (l[2] + c3) \div Limb
  IN  <<l[1] + c2, (l[2] + c3) % Limb, (l[3] + c4) % Limb, l[4] % Limb>>

\* the leading zero bits of c / t after the point, for 0 < c < t
LeadingZeros(c, t) ==
  CHOOSE z \in 0..LimbBits : c * 2 ^ (z + 1) >= t /\ c * 2 ^ z < t

\* round to nearest, ties to even, dropping the `drop` low bits of the last
\* limb; sticky tells of a remainder below the limbs given
RoundToDouble(l, drop, sticky) ==
  LET unit == 2 ^ drop
      half == unit \div 2
      low == l[4] % unit
      kept == l[4] - low
      odd == (l[4] \div unit) % 2 = 1
      up == \/ low > half
            \/ low = half /\ (sticky \/ odd)
  IN  CHOOSE r \in {Carried(k) :
                      k \in {<<l[1], l[2], l[3],
                               IF up THEN kept + unit ELSE kept>>}} : TRUE

\* 54 bits of the quotient c / t by long division, in three limbs, for
\* 0 < c < t < 2^11: the bits from the first set one on
LongDivision(c, t) ==
  LET z == LeadingZeros(c, t)
      r0 == c * 2 ^ z
      d1 == (r0 * Limb) \div t
      r1 == (r0 * Limb) % t
      d2 == (r1 * Limb) \div t
      r2 == (r1 * Limb) % t
      d3 == (r2 * Limb) \div t
      r3 == (r2 * Limb) % t
  IN  [limbs |-> <<0, d1, d2, d3>>, sticky |-> r3 # 0, z |-> z]

\* the double nearest to c / t: the quotient rounded to the 53 bits of the
\* significand
DivDouble(c, t) ==
  CHOOSE d \in {[limbs |-> RoundToDouble(q.limbs, 1, q.sticky), z |-> q.z] :
                  q \in {LongDivision(c, t)}} : TRUE

\* the double nearest to d * 100: the exact product has 60 or 61 bits
Times100Double(d) ==
  CHOOSE p \in {[limbs |-> RoundToDouble(exact,
                                         IF exact[1] >= 64 THEN 8 ELSE 7,
                                         FALSE),
                 z |-> d.z] :
                  exact \in {Carried([i \in 1..4 |-> 100 * d.limbs[i]])}} :
    TRUE

\* Math.round of a non-negative double: floor(x + 0.5)
MathRound(d) ==
  LET l == d.limbs
      plusHalf == Carried(<<l[1], l[2] + 2 ^ (LimbBits - 1 + d.z),
                            l[3], l[4]>>)
  IN  plusHalf[1] \div 2 ^ d.z

\* an evaluation in exact arithmetic
percentExact(completed, total) ==
  IF total > 0 THEN (200 * completed + total) \div (2 * total) ELSE 0

\* total > 0 ? Math.round((completed / total) * 100) : 0
percentOf(completed, total) ==
  IF total > 0
  THEN IF completed = 0
       THEN 0
       ELSE IF completed = total
            THEN 100
            ELSE CHOOSE percent \in
                   {MathRound(product) :
                      product \in
                        {Times100Double(quotient) :
                           quotient \in {DivDouble(completed, total)}}} :
                   TRUE
  ELSE 0

\* getProgress
getProgress(s) ==
  LET total == Len(s.tasks)
      completed == CountStatus(s.tasks, "completed") IN
  [total |-> total,
   completed |-> completed,
   failed |-> CountStatus(s.tasks, "failed"),
   pending |-> CountStatus(s.tasks, "pending"),
   running |-> CountStatus(s.tasks, "running"),
   percent |-> percentOf(completed, total)]

\* updateTaskInPlan: the plan after the call (unchanged when there is no plan
\* or no such task, where the code returns false)
updateTaskInPlan(p, taskId, status) ==
  LET i == FindTask(p.tasks, taskId) IN
  IF ~p.exists \/ i = 0 THEN p
  ELSE [p EXCEPT !.tasks[i].status = status]

\* planTasksToSessionTasks: a running plan task becomes pending
planTasksToSessionTasks(planTasks) ==
  [i \in 1..Len(planTasks) |->
     [id |-> planTasks[i].id, deps |-> planTasks[i].deps,
      status |-> IF planTasks[i].status = "running" THEN "pending"
                 ELSE planTasks[i].status,
      error |-> ""]]

\* the copy the plan command stores in the session
PlanTasksAsSessionTasks(planTasks) ==
  [i \in 1..Len(planTasks) |->
     [id |-> planTasks[i].id, deps |-> planTasks[i].deps,
      status |-> planTasks[i].status, error |-> ""]]

\* ------------------------------------------------------------------------
\* Stream events
\* ------------------------------------------------------------------------

Tools == {"Bash", "TodoWrite", "Read"}

TextPieces ==
  [k : {"word", "marker"}, w : WordIds]
    \cup {[k |-> "gitcommit", w |-> <<>>], [k |-> "completed", w |-> <<>>]}

Texts == UNION {[1..n -> TextPieces] : n \in 0..MaxText}

\* text.includes(task.id): the id occurs inside a word or a marker body
TextIncludes(text, id) ==
  \E i \in 1..Len(text) :
    text[i].k \in {"word", "marker"} /\ Includes(text[i].w, id)

\* text.includes('git commit')
HasGitCommit(text) == \E i \in 1..Len(text) : text[i].k = "gitcommit"

\* text.includes('completed')
HasCompleted(text) == \E i \in 1..Len(text) : text[i].k = "completed"

IsMatchingMarker(piece) == piece.k = "marker" /\ MatchesTaskIdPattern(piece.w)

\* output.match(/<task-complete>([A-Z]+-\d+)<\/task-complete>/): the capture
\* group of the first match as <<id>>, or <<>> when nothing matches
taskCompleteMatch(output) ==
  LET hits == SelectSeq(output, IsMatchingMarker) IN
  IF hits = <<>> THEN <<>> ELSE <<Head(hits).w>>

AgentEvent(tool, display, output) ==
  [type |-> "agent", tool |-> tool, display |-> display, output |-> output,
   success |-> FALSE, prUrl |-> ""]

ResultEvent(success, prUrl) ==
  [type |-> "result", tool |-> "", display |-> <<>>, output |-> <<>>,
   success |-> success, prUrl |-> prUrl]

PlainEvent(type) ==
  [type |-> type, tool |-> "", display |-> <<>>, output |-> <<>>,
   success |-> FALSE, prUrl |-> ""]

\* a PR url, or "" when the result carries none
PrUrls == {"", "X"}

AgentEvents ==
  {AgentEvent(tool, t, <<>>) : tool \in Tools, t \in Texts}
    \cup {AgentEvent(tool, <<>>, t) : tool \in Tools, t \in Texts}

\* every message the stream can deliver: the heartbeat sentinel, a frame
\* that fails JSON.parse, and the four event types
StreamEvents ==
  AgentEvents
    \cup {ResultEvent(ok, url) : ok \in BOOLEAN, url \in PrUrls}
    \cup {PlainEvent(t) : t \in {"heartbeat", "garbage", "status", "error"}}

\* ------------------------------------------------------------------------
\* Token bucket limiter (lib/rate-limiter.ts): data and pure steps
\* ------------------------------------------------------------------------

\* largest bucket size of the configurations explored
MaxBucket == 2

\* the clock stops being advanced by hand at this time
MaxTime == 3

Min(a, b) == IF a <= b THEN a ELSE b

Max(a, b) == IF a >= b THEN a ELSE b

\* Math.ceil(a / b) for a >= 0, b > 0
Ceil(a, b) == (a + b - 1) \div b

\* the request keys of one limiter
Keys == {"a", "b"}

\* interface RateLimitConfig: whole tokens, a refill interval of some ms
RateLimitConfig ==
  [maxTokens : 1..MaxBucket, refillRate : 0..2, refillInterval : {2, 3}]

\* no entry for the key in the `states` map
NoState == [present |-> FALSE, tokens |-> 0, lastRefill |-> 0]

NoStates == [k \in Keys |-> NoState]

\* a duration in ms, or Infinity (what a division by refillRate = 0 gives)
Ms(n) == [inf |-> FALSE, ms |-> n]

Infinity == [inf |-> TRUE, ms |-> 0]

\* `retryAfter` left out of the result
NoRetryAfter == Ms(0)

\* a lookup that never finds the entry
getOrCreateStateAlwaysNew(cfg, sts, key, t) ==
  [sts EXCEPT ![key] =
     [present |-> TRUE, tokens |-> cfg.maxTokens, lastRefill |-> t]]

\* getOrCreateState: the entry of the key, created full at the current time
getOrCreateState(cfg, sts, key, t) ==
  IF sts[key].present
  THEN sts
  ELSE [sts EXCEPT ![key] =
          [present |-> TRUE, tokens |-> cfg.maxTokens, lastRefill |-> t]]

\* the intervals begun, not the whole ones
intervalsPassedRoundedUp(cfg, st, t) ==
  Ceil(t - st.lastRefill, cfg.refillInterval)

\* Math.floor(timePassed / refillInterval)
intervalsPassed(cfg, st, t) == (t - st.lastRefill) \div cfg.refillInterval

\* a refill that forgets the cap
refillTokensUncapped(cfg, st, t) ==
  IF intervalsPassed(cfg, st, t) > 0
  THEN [st EXCEPT
          !.tokens = @ + intervalsPassed(cfg, st, t) * cfg.refillRate,
          !.lastRefill = t]
  ELSE st

\* refillTokens: credit the whole intervals passed, move lastRefill to now
refillTokens(cfg, st, t) ==
  IF intervalsPassed(cfg, st, t) > 0
  THEN [st EXCEPT
          !.tokens = Min(cfg.maxTokens,
                         @ + intervalsPassed(cfg, st, t) * cfg.refillRate),
          !.lastRefill = t]
  ELSE st

\* tokens - state.tokens over refillRate refills, each refillInterval long
retryAfterOf(cfg, needed) ==
  IF cfg.refillRate = 0
  THEN Infinity
  ELSE Ms(Ceil(needed, cfg.refillRate) * cfg.refillInterval)

\* the entry of the key after getOrCreateState and refillTokens
Refilled(cfg, sts, key, t) ==
  refillTokens(cfg, getOrCreateState(cfg, sts, key, t)[key], t)

\* a consume that answers without taking the tokens
consumeNoSubtract(cfg, sts, key, tokens, t) ==
  [states |-> [sts EXCEPT ![key] = Refilled(cfg, sts, key, t)],
   result |-> [allowed |-> Refilled(cfg, sts, key, t).tokens >= tokens,
               tokensRemaining |-> Refilled(cfg, sts, key, t).tokens,
               retryAfter |-> NoRetryAfter]]

\* consume: the map afterwards and the RateLimitResult
consume(cfg, sts, key, tokens, t) ==
  LET state == Refilled(cfg, sts, key, t)
  IN  IF state.tokens >= tokens
      THEN [states |-> [sts EXCEPT ![key] =
                          [state EXCEPT !.tokens = @ - tokens]],
            result |-> [allowed |-> TRUE,
                        tokensRemaining |-> state.tokens - tokens,
                        retryAfter |-> NoRetryAfter]]
      ELSE [states |-> [sts EXCEPT ![key] = state],
            result |-> [allowed |-> FALSE,
                        tokensRemaining |-> state.tokens,
                        retryAfter |->
                          retryAfterOf(cfg, tokens - state.tokens)]]

\* getTokens: the map afterwards and the count returned
getTokens(cfg, sts, key, t) ==
  [states |-> [sts EXCEPT ![key] = Refilled(cfg, sts, key, t)],
   result |-> Refilled(cfg, sts, key, t).tokens]

\* a reset that clears the whole map, as resetAll does
resetEveryKey(sts, key) == NoStates

\* reset: this.states.delete(key)
reset(sts, key) == [sts EXCEPT ![key] = NoState]

\* most retries of the retry configurations explored
MaxRetriesCfg == 2

\* interface RetryConfig: delays in ms
RetryConfig == [maxRetries : 0..MaxRetriesCfg, baseDelay : {1}, maxDelay : {2, 3}]

\* what a call of fn can end in: its value, or an Error with this message
FnOutcomes == {"value", "HTTP 429", "rate limit reached", "boom"}

\* every error caught is taken for throttling
isThrottlingAlways(message) == TRUE

\* error.message?.includes('429') || error.message?.includes('rate limit')
isThrottling(message) == message \in {"HTTP 429", "rate limit reached"}

\* a retry test that stops one retry early
mayRetryOneLess(rc, attempt) == attempt < rc.maxRetries

\* `if (attempt <= this.retryConfig.maxRetries)` after a throttled fn
mayRetry(rc, attempt) == attempt <= rc.maxRetries

\* a test that lets the loop run out instead
attemptsExhaustedLate(rc, attempt) == attempt > rc.maxRetries

\* `if (attempt >= this.retryConfig.maxRetries)` after a denied admission
attemptsExhausted(rc, attempt) == attempt >= rc.maxRetries

\* 2 ** n
Pow2(n) == IF n = 0 THEN 1 ELSE IF n = 1 THEN 2 ELSE IF n = 2 THEN 4 ELSE 8

\* a backoff that takes the raised attempt as the exponent
throttleDelayOffByOne(rc, attempt) ==
  Min(rc.baseDelay * Pow2(attempt), rc.maxDelay)

\* the backoff after a throttled fn: baseDelay * 2^(attempt - 1), clamped
throttleDelay(rc, attempt) == Min(rc.baseDelay * Pow2(attempt - 1), rc.maxDelay)

\* the backoff after a denied admission:
\* max(retryAfter || baseDelay, baseDelay) * 2^attempt, clamped
admissionDelay(rc, retryAfter, attempt) ==
  IF retryAfter.inf
  THEN rc.maxDelay
  ELSE Min(Max(IF retryAfter.ms = 0 THEN rc.baseDelay ELSE retryAfter.ms,
               rc.baseDelay) * Pow2(attempt),
           rc.maxDelay)

\* no execute call in progress
NoExecute ==
  [pc |-> "idle", key |-> "a", tokens |-> 0, attempt |-> 0,
   fnLog |-> <<>>, consumes |-> 0, denials |-> 0, sleeps |-> <<>>,
   last |-> [allowed |-> FALSE, tokensRemaining |-> 0,
             retryAfter |-> NoRetryAfter],
   outcome |-> "none", error |-> "", retryAfter |-> NoRetryAfter,
   tokens0 |-> 0, refilled |-> FALSE, wakeAt |-> 0]

\* no limiter call made yet
NoCall == [op |-> "none", key |-> "a", tokens |-> 0,
           allowed |-> FALSE, tokensRemaining |-> 0,
           retryAfter |-> NoRetryAfter]

\* no denied consume is being waited for
NoHint == [active |-> FALSE, tokens |-> 0, at |-> 0, retryAfter |-> 0]

\* ------------------------------------------------------------------------
\* State
\* ------------------------------------------------------------------------

VARIABLES
  session,         \* .pr-agent/state.json
  plan,            \* .pr-agent/plan.md
  stream,          \* messages of the open event stream not yet handled
  script,          \* the messages a scripted server sends, in order
  scriptPos,       \* how many of them it has sent
  sePc,            \* runShipEngineSingleExecution: where the call stands
  seSession,       \* its `session` object, loaded once at entry
  sePending,       \* its `pendingTasks` (ids, plan order)
  seTotal,         \* its `totalTasks`
  seBase,          \* completed tasks of the plan loaded at entry
  seCompleted,     \* its `completedTasks` counter
  seDoneIds,       \* its `completedTaskIds` set
  seResult,        \* the ShipResult it resolved with
  cbTaskComplete,  \* calls of callbacks.onTaskComplete, per task id
  cbProgress,      \* calls of callbacks.onProgress: count and last arguments
  cbOnComplete,    \* calls of callbacks.onComplete: count and last argument
  sawRepeat,       \* an agent event pointed at an id already marked complete
  ptPc,            \* runShipEngine: where the call stands
  ptOpts,          \* its options: stepMode, autoMode, whether onStepPause is given
  ptSession,       \* its `session` object while it waits on onStepPause
  ptNext,          \* its `nextTask`
  ptTotal,         \* its `totalTasks`
  ptCompleted,     \* its `completedTasks` counter
  ptExec,          \* what executeTask resolved with
  ptExecs,         \* tasks this call has started
  ptResult,        \* the ShipResult it returned
  planPc,          \* the plan command: idle, or waiting for the generated tasks
  planSession,     \* its `session` object across that wait
  gnTasks,         \* scheduler alone: the task list handed to getNextTask
  gnResult,        \* scheduler alone: what getNextTask returned for it
  gnCalled,        \* scheduler alone: gnResult is the answer for gnTasks
  jobs,            \* the background job registry: per job id, the status of
                   \* the entry updateBackgroundJob finds ("none" without one)
  config,          \* limiter: its RateLimitConfig
  now,             \* limiter: Date.now()
  states,          \* limiter: its `states` map
  rlCall,          \* limiter: the last call made on it and what it returned
  granted,         \* limiter: tokens granted on the metered key since its
                   \* entry was made
  createdAt,       \* limiter: when the entry of the metered key was made
  emptiedAt,       \* limiter: when one consume last took the whole full bucket
                   \* of the metered key, nothing granted from it since (or -1)
  hint,            \* limiter: a denied consume on the metered key whose
                   \* retryAfter the caller waits for, no consume granted on
                   \* the key since
  retryConfig,     \* executor: its RetryConfig
  ex,              \* executor: the execute call in progress
  calls,           \* executor: per caller, its execute call when several
                   \* callers use one executor at once
  pgTasks,         \* getProgress alone: the task list of the session read
  pgProgress       \* getProgress alone: what getProgress returned for it

persistVars == <<session, plan>>

seVars ==
  <<sePc, seSession, sePending, seTotal, seBase, seCompleted, seDoneIds,
    seResult, sawRepeat>>

cbVars == <<cbTaskComplete, cbProgress, cbOnComplete>>

scriptVars == <<script, scriptPos>>

ptVars ==
  <<ptPc, ptOpts, ptSession, ptNext, ptTotal, ptCompleted, ptExec, ptExecs,
    ptResult>>

cmdVars == <<planPc, planSession>>

gnVars == <<gnTasks, gnResult, gnCalled>>

rlVars == <<config, now, states, rlCall, granted, createdAt, emptiedAt, hint>>

exVars == <<retryConfig, ex, calls>>

pgVars == <<pgTasks, pgProgress>>

\* what single-session mode never touches
outsideSe == <<ptVars, cmdVars, gnVars, rlVars, exVars, pgVars>>

vars ==
  <<persistVars, stream, scriptVars, seVars, cbVars, ptVars, cmdVars, gnVars,
    jobs, rlVars, exVars, pgVars>>

NoResult ==
  [returned |-> FALSE, success |-> FALSE, prUrl |-> "", completedTasks |-> 0,
   totalTasks |-> 0, error |-> "", via |-> ""]

ShipResult(success, prUrl, completedTasks, totalTasks, error, via) ==
  [returned |-> TRUE, success |-> success, prUrl |-> prUrl,
   completedTasks |-> completedTasks, totalTasks |-> totalTasks,
   error |-> error, via |-> via]

NoCalls == [id \in AllIds |-> 0]

NoProgress == [n |-> 0, completed |-> 0, total |-> 0]

NoOnComplete == [n |-> 0, prUrl |-> ""]

TaskIdsOf(tasks) == [i \in 1..Len(tasks) |-> tasks[i].id]

\* ------------------------------------------------------------------------
\* Single-session mode: runShipEngineSingleExecution
\* ------------------------------------------------------------------------

\* What the agent-event handler reads and writes while it runs: the
\* closure's completedTaskIds/completedTasks, plan.md, and the callbacks.
HandlerState ==
  [done |-> seDoneIds, completed |-> seCompleted, plan |-> plan,
   fired |-> cbTaskComplete, progress |-> cbProgress,
   pending |-> sePending, total |-> seTotal]

InPending(pending, taskId) == \E i \in 1..Len(pending) : pending[i] = taskId

\* markTaskComplete without its `completedTaskIds.has(taskId)` early return
markTaskCompleteNoGuard(st, taskId) ==
  [st EXCEPT
     !.done = @ \cup {taskId},
     !.completed = @ + 1,
     !.plan = updateTaskInPlan(@, taskId, "completed"),
     !.fired = IF InPending(st.pending, taskId)
               THEN [@ EXCEPT ![taskId] = @ + 1] ELSE @,
     !.progress = [n |-> @.n + 1, completed |-> st.completed + 1,
                   total |-> st.total]]

\* markTaskComplete(taskId)
markTaskComplete(st, taskId) ==
  IF taskId \in st.done THEN st
  ELSE [st EXCEPT
          !.done = @ \cup {taskId},
          !.completed = @ + 1,
          !.plan = updateTaskInPlan(@, taskId, "completed"),
          !.fired = IF InPending(st.pending, taskId)
                    THEN [@ EXCEPT ![taskId] = @ + 1] ELSE @,
          !.progress = [n |-> @.n + 1, completed |-> st.completed + 1,
                        total |-> st.total]]

\* Method 1: explicit marker
markerMethod(st, ev) ==
  LET m == taskCompleteMatch(ev.output) IN
  IF m # <<>> THEN markTaskComplete(st, m[1]) ELSE st

\* the test of Method 2 on one pending task
commitMentions(ev, id) ==
  TextIncludes(ev.display, id) \/ TextIncludes(ev.output, id)

RECURSIVE commitLoop(_, _, _)
\* Method 2: the loop over pendingTasks
commitLoop(st, ev, rest) ==
  IF rest = <<>> THEN st
  ELSE LET id == Head(rest)
           st1 == IF id \notin st.done /\ commitMentions(ev, id)
                  THEN markTaskComplete(st, id) ELSE st
       IN commitLoop(st1, ev, Tail(rest))

\* Method 2: git commit with a task id
commitMethod(st, ev) ==
  IF ev.tool = "Bash" /\ (HasGitCommit(ev.display) \/ HasGitCommit(ev.output))
  THEN commitLoop(st, ev, st.pending) ELSE st

RECURSIVE todoLoop(_, _, _)
\* Method 3: the loop over pendingTasks
todoLoop(st, ev, rest) ==
  IF rest = <<>> THEN st
  ELSE LET id == Head(rest)
           st1 == IF id \notin st.done /\ TextIncludes(ev.output, id)
                  THEN markTaskComplete(st, id) ELSE st
       IN todoLoop(st1, ev, Tail(rest))

\* Method 3: TodoWrite showing a task completed
todoMethod(st, ev) ==
  IF ev.tool = "TodoWrite" /\ HasCompleted(ev.output)
  THEN todoLoop(st, ev, st.pending) ELSE st

\* the `agent` branch of es.onmessage
handleAgent(st, ev) == todoMethod(commitMethod(markerMethod(st, ev), ev), ev)

RECURSIVE markRemaining(_, _)
\* the loop of the `result` branch over the pending tasks no heuristic
\* matched; st carries plan.md and the counter
markRemaining(st, rest) ==
  IF rest = <<>> THEN st
  ELSE LET id == Head(rest)
           st1 == IF id \notin st.done
                  THEN [st EXCEPT !.plan = updateTaskInPlan(@, id, "completed"),
                                  !.completed = @ + 1]
                  ELSE st
       IN markRemaining(st1, Tail(rest))

\* the `result` branch without its loop over the unmatched pending tasks
markRemainingOnSuccessSkip(st, ev) == st

\* the `if (data.result?.success)` block of the `result` branch
markRemainingOnSuccess(st, ev) ==
  IF ev.success THEN markRemaining(st, st.pending) ELSE st

\* the `result` branch forgetting to copy the PR url
finalSessionNoUrl(s, ev) ==
  updateSessionStatus(s, IF ev.success THEN "completed" ELSE "error")

\* the session the `result` branch saves
finalSession(s, ev) ==
  updateSessionStatus(
    [s EXCEPT !.prUrl = IF ev.prUrl # "" THEN ev.prUrl ELSE @],
    IF ev.success THEN "completed" ELSE "error")

\* an agent event points at this id through one of the three methods
PointsAt(ev, id) ==
  \/ taskCompleteMatch(ev.output) = <<id>>
  \/ ev.tool = "Bash" /\ (HasGitCommit(ev.display) \/ HasGitCommit(ev.output))
       /\ commitMentions(ev, id)
  \/ ev.tool = "TodoWrite" /\ HasCompleted(ev.output) /\ TextIncludes(ev.output, id)

SeReturn(result) ==
  /\ sePc' = "done"
  /\ seResult' = result

\* Entry up to the execute request (ship-engine.ts 409-444)
SeStart ==
  /\ UNCHANGED jobs
  /\ UNCHANGED <<scriptVars, outsideSe>>
  /\ sePc \in {"idle", "done", "rejected"}
  /\ stream = <<>>
  /\ seDoneIds' = {}
  /\ seCompleted' = 0
  /\ sawRepeat' = FALSE
  /\ cbTaskComplete' = NoCalls
  /\ UNCHANGED <<plan, stream>>
  /\ IF ~session.exists
     THEN /\ SeReturn(ShipResult(FALSE, "", 0, 0, "No session found", "entry"))
          /\ cbProgress' = NoProgress
          /\ cbOnComplete' = NoOnComplete
          /\ UNCHANGED <<session, seSession, sePending, seTotal, seBase>>
     ELSE IF ~plan.exists
     THEN /\ SeReturn(ShipResult(FALSE, "", 0, 0, "No plan found", "entry"))
          /\ cbProgress' = NoProgress
          /\ cbOnComplete' = NoOnComplete
          /\ UNCHANGED <<session, seSession, sePending, seTotal, seBase>>
     ELSE LET totalTasks == Len(plan.tasks)
              pendingTasks == SelectSeq(plan.tasks, IsPending) IN
          /\ seTotal' = totalTasks
          /\ sePending' = TaskIdsOf(pendingTasks)
          /\ seBase' = CountStatus(plan.tasks, "completed")
          /\ IF pendingTasks = <<>>
             THEN /\ cbOnComplete' = [n |-> 1, prUrl |-> session.prUrl]
                  /\ cbProgress' = NoProgress
                  /\ SeReturn(ShipResult(TRUE, session.prUrl, totalTasks,
                                         totalTasks, "", "entry"))
                  /\ UNCHANGED <<session, seSession>>
             ELSE /\ cbOnComplete' = NoOnComplete
                  /\ cbProgress' = [n |-> 1, completed |-> 0, total |-> totalTasks]
                  /\ session' = updateSessionStatus(session, "shipping")
                  /\ seSession' = session'
                  /\ sePc' = "fetch"
                  /\ seResult' = NoResult

\* The execute request fails to connect or answers non-2xx (467-474)
SeFetchFail ==
  /\ UNCHANGED jobs
  /\ UNCHANGED <<scriptVars, outsideSe>>
  /\ sePc = "fetch"
  /\ SeReturn(ShipResult(FALSE, "", 0, seTotal, "execute failed", "fetch"))
  /\ UNCHANGED <<persistVars, stream, seSession, sePending, seTotal, seBase,
                 seCompleted, seDoneIds, sawRepeat, cbVars>>

\* The execute request is answered 2xx with a body response.json() cannot
\* read: the await throws outside any try, the returned promise rejects
SeFetchBadBody ==
  /\ UNCHANGED <<scriptVars, outsideSe>>
  /\ UNCHANGED jobs
  /\ sePc = "fetch"
  /\ sePc' = "rejected"
  /\ UNCHANGED <<persistVars, stream, seSession, sePending, seTotal, seBase,
                 seCompleted, seDoneIds, seResult, sawRepeat, cbVars>>

JobIds == {"j1"}

JobStatuses == {"running", "completed", "failed"}

\* no job registered
NoJobs == [j \in JobIds |-> "none"]

\* registerBackgroundJob: pushes a running entry; an entry already there for
\* the id stays the one `find` returns
registerBackgroundJob(js, jobId) ==
  IF js[jobId] = "none" THEN [js EXCEPT ![jobId] = "running"] ELSE js

\* updateBackgroundJob: no effect when the id has no entry
updateBackgroundJob(js, jobId, status) ==
  IF js[jobId] = "none" THEN js ELSE [js EXCEPT ![jobId] = status]

\* The execute request returns a job; the stream is opened (476-494)
SeFetchOk ==
  /\ UNCHANGED <<scriptVars, outsideSe>>
  /\ sePc = "fetch"
  /\ \E jobId \in JobIds :
       /\ jobs' = registerBackgroundJob(jobs, jobId)
       /\ seSession' = [seSession EXCEPT !.jobId = jobId]
       /\ session' = seSession'
  /\ seCompleted' = seBase
  /\ seDoneIds' = {}
  /\ sePc' = "stream"
  /\ stream' = <<>>
  /\ UNCHANGED <<plan, sePending, seTotal, seBase, seResult, sawRepeat, cbVars>>

\* The server pushes a message on the open stream
SeEmit ==
  /\ UNCHANGED jobs
  /\ UNCHANGED <<scriptVars, outsideSe>>
  /\ sePc = "stream"
  /\ stream = <<>>
  /\ \E ev \in StreamEvents : stream' = <<ev>>
  /\ UNCHANGED <<persistVars, seVars, cbVars>>

\* es.onmessage for the oldest undelivered message (496-624)
SeOnMessage ==
  /\ UNCHANGED <<scriptVars, outsideSe>>
  /\ sePc = "stream"
  /\ stream # <<>>
  /\ LET ev == Head(stream) IN
     CASE ev.type = "agent" ->
            LET st == handleAgent(HandlerState, ev) IN
            /\ seDoneIds' = st.done
            /\ seCompleted' = st.completed
            /\ plan' = st.plan
            /\ cbTaskComplete' = st.fired
            /\ cbProgress' = st.progress
            /\ sawRepeat' = (sawRepeat \/ \E id \in seDoneIds : PointsAt(ev, id))
            /\ stream' = Tail(stream)
            /\ UNCHANGED <<session, sePc, seSession, sePending, seTotal, seBase,
                           seResult, cbOnComplete, jobs>>
       [] ev.type = "result" ->
            LET st == markRemainingOnSuccess(HandlerState, ev) IN
            /\ jobs' = updateBackgroundJob(jobs, seSession.jobId,
                                           IF ev.success THEN "completed"
                                           ELSE "failed")
            /\ session' = IF session.exists THEN finalSession(session, ev)
                          ELSE session
            /\ plan' = st.plan
            /\ seCompleted' = st.completed
            /\ cbOnComplete' = [n |-> cbOnComplete.n + 1, prUrl |-> ev.prUrl]
            /\ SeReturn(ShipResult(ev.success, ev.prUrl, st.completed, seTotal,
                                   IF ev.success THEN "" ELSE "failed", "result"))
            /\ stream' = <<>>
            /\ UNCHANGED <<seSession, sePending, seTotal, seBase, seDoneIds,
                           sawRepeat, cbTaskComplete, cbProgress>>
       [] ev.type = "error" ->
            /\ jobs' = updateBackgroundJob(jobs, seSession.jobId, "failed")
            /\ SeReturn(ShipResult(FALSE, "", seCompleted, seTotal,
                                   "stream error", "error"))
            /\ stream' = <<>>
            /\ UNCHANGED <<persistVars, seSession, sePending, seTotal, seBase,
                           seCompleted, seDoneIds, sawRepeat, cbVars>>
       [] OTHER ->
            \* heartbeat, unparsable frame, status
            /\ stream' = Tail(stream)
            /\ UNCHANGED <<persistVars, seVars, cbVars, jobs>>

\* es.onerror: the connection is lost (626-635)
SeOnError ==
  /\ UNCHANGED <<scriptVars, outsideSe>>
  /\ sePc = "stream"
  /\ jobs' = updateBackgroundJob(jobs, seSession.jobId, "failed")
  /\ SeReturn(ShipResult(FALSE, "", seCompleted, seTotal, "Connection lost",
                         "onerror"))
  /\ stream' = <<>>
  /\ UNCHANGED <<persistVars, seSession, sePending, seTotal, seBase,
                 seCompleted, seDoneIds, sawRepeat, cbVars>>

\* ------------------------------------------------------------------------
\* Specification of single-session mode on a freshly planned session
\* ------------------------------------------------------------------------

\* the session and plan the plan command leaves behind
PlannedSession(p) ==
  [createSession EXCEPT !.status = "plan_ready",
                        !.tasks = PlanTasksAsSessionTasks(p)]

SinglePlans == {PlanPrefix, PlanLower}

\* executeTask has not resolved; `requests` counts the execute requests a
\* call of executeTask has issued when it resolves, `jobId` is its local of
\* that name, set once the request is answered
NoExec == [success |-> FALSE, error |-> "", requests |-> 0, jobId |-> ""]

NoOpts == [stepMode |-> FALSE, autoMode |-> FALSE, onStepPause |-> FALSE]

PtIdle ==
  /\ ptPc = "idle"
  /\ ptOpts = NoOpts
  /\ ptSession = NoSession
  /\ ptNext = <<>>
  /\ ptTotal = 0
  /\ ptCompleted = 0
  /\ ptExec = NoExec
  /\ ptExecs = 0
  /\ ptResult = NoResult

CmdIdle ==
  /\ planPc = "idle"
  /\ planSession = NoSession

GnIdle ==
  /\ gnTasks = <<>>
  /\ gnResult = <<>>
  /\ gnCalled = FALSE

PgIdle ==
  /\ pgTasks = <<>>
  /\ pgProgress = <<>>

\* the limiter, unused
RlIdle ==
  /\ config = [maxTokens |-> 1, refillRate |-> 0, refillInterval |-> 2]
  /\ now = 0
  /\ states = NoStates
  /\ rlCall = NoCall
  /\ granted = 0
  /\ createdAt = 0
  /\ emptiedAt = -1
  /\ hint = NoHint

\* the backoff sleeps of execute
Sleeping == {"sleepThrottled", "sleepDenied"}

\* a sleep that holds the thread until it is over
holdsThreadWhileSleeping(e) == e.pc \in Sleeping

\* whether the call e keeps other callers from running: sleep awaits a
\* setTimeout promise, and an awaiting call holds nothing
holdsThread(e) == FALSE

\* the callers that share one executor
Callers == {1, 2}

\* none of them has a call in progress
NoCallers == [c \in Callers |-> NoExecute]

\* the executor, unused
ExIdle ==
  /\ retryConfig = [maxRetries |-> 0, baseDelay |-> 1, maxDelay |-> 2]
  /\ ex = NoExecute
  /\ calls = NoCallers

SeIdle ==
  /\ stream = <<>>
  /\ sePc = "idle"
  /\ seSession = NoSession
  /\ sePending = <<>>
  /\ seTotal = 0
  /\ seBase = 0
  /\ seCompleted = 0
  /\ seDoneIds = {}
  /\ seResult = NoResult
  /\ sawRepeat = FALSE
  /\ cbTaskComplete = NoCalls
  /\ cbProgress = NoProgress
  /\ cbOnComplete = NoOnComplete

NoScript ==
  /\ script = <<>>
  /\ scriptPos = 0

InitSingle ==
  /\ jobs = NoJobs
  /\ NoScript
  /\ PtIdle
  /\ CmdIdle
  /\ GnIdle
  /\ PgIdle
  /\ RlIdle
  /\ ExIdle
  /\ \E p \in SinglePlans :
       /\ plan = [exists |-> TRUE, tasks |-> p]
       /\ session = PlannedSession(p)
  /\ SeIdle

NextSingle ==
  \/ SeStart
  \/ SeFetchFail
  \/ SeFetchBadBody
  \/ SeFetchOk
  \/ SeEmit
  \/ SeOnMessage
  \/ SeOnError

SpecSingle == InitSingle /\ [][NextSingle]_vars

\* ------------------------------------------------------------------------
\* Properties of single-session mode
\* ------------------------------------------------------------------------

AllCompleted(tasks) == \A i \in 1..Len(tasks) : tasks[i].status = "completed"

\* the status plan.md records for a task id ("" when it has no such task)
PlanStatus(p, id) ==
  LET i == FindTask(p.tasks, id) IN IF i = 0 THEN "" ELSE p.tasks[i].status

\* C1: whenever the persisted Session's status is set to completed, every
\* Task in that Session's task list has status completed at that moment.
C1_CompletedSessionHasAllTasksCompleted ==
  [][(session'.status = "completed" /\ session.status # "completed")
       => AllCompleted(session'.tasks)]_vars

AllowedTaskStep(a, b) ==
  \/ a = b
  \/ <<a, b>> \in {<<"pending", "running">>, <<"running", "completed">>,
                   <<"running", "failed">>, <<"failed", "pending">>,
                   <<"pending", "skipped">>}

\* every task that is in both lists changes status along an allowed edge
AllowedTaskSteps(before, after) ==
  \A i \in 1..Len(before) :
    LET j == FindTask(after, before[i].id) IN
    j # 0 => AllowedTaskStep(before[i].status, after[j].status)

\* C4: every change of a Task's status, in the Session and in the plan
\* representation, is one of pending -> running, running -> completed,
\* running -> failed, failed -> pending or pending -> skipped.
C4_TaskStatusTransitions ==
  [][/\ AllowedTaskSteps(session.tasks, session'.tasks)
     /\ AllowedTaskSteps(plan.tasks, plan'.tasks)]_vars

\* C7: completion detection is idempotent: onTaskComplete has fired exactly
\* once for every pending task marked complete (never twice, whatever later
\* events mention it), and while the stream is open the completed count is
\* the count at entry plus one for every id marked.
C7_MarkedOnce ==
  /\ \A id \in AllIds :
       cbTaskComplete[id] =
         IF id \in seDoneIds /\ InPending(sePending, id) THEN 1 ELSE 0
  /\ sePc = "stream" => seCompleted = seBase + Cardinality(seDoneIds)

\* an event pointing again at a marked task has been handled
C7_Witness ==
  /\ sawRepeat
  /\ \E id \in AllIds : cbTaskComplete[id] = 1

\* the ids an event's texts name as a whole word or marker body
NamedIds(ev) ==
  {id \in AllIds :
     \/ \E i \in 1..Len(ev.display) : ev.display[i].w = id
     \/ \E i \in 1..Len(ev.output) : ev.output[i].w = id}

IsCommitToolEvent(ev) ==
  ev.type = "agent" /\ ev.tool = "Bash" /\ HasGitCommit(ev.display)

\* the step is es.onmessage handling an agent event
HandlesAgent ==
  /\ sePc = "stream"
  /\ stream # <<>>
  /\ Head(stream).type = "agent"
  /\ sePc' = "stream"
  /\ stream' = Tail(stream)

\* C8: a commit-tool event whose display text names a pending task's id
\* marks exactly that task completed: the status of a task the event does
\* not name does not change.
C8_CommitMarksOnlyNamedTasks ==
  [][(HandlesAgent /\ IsCommitToolEvent(Head(stream)))
       => \A i \in 1..Len(plan.tasks) :
            plan'.tasks[i].status # plan.tasks[i].status
              => plan.tasks[i].id \in NamedIds(Head(stream))]_vars

IsFirstMarker(output, id) ==
  \E i \in 1..Len(output) :
    /\ output[i] = [k |-> "marker", w |-> id]
    /\ \A j \in 1..(i - 1) : output[j].k # "marker"

HasWord(text, id) == \E i \in 1..Len(text) : text[i] = [k |-> "word", w |-> id]

\* the event carries one of the three completion signals for this id
Carries(ev, id) ==
  \/ IsFirstMarker(ev.output, id)
  \/ ev.tool = "Bash" /\ HasGitCommit(ev.display) /\ HasWord(ev.display, id)
  \/ ev.tool = "TodoWrite" /\ HasCompleted(ev.output) /\ HasWord(ev.output, id)

StillPending(id) ==
  /\ InPending(sePending, id)
  /\ id \notin seDoneIds
  /\ PlanStatus(plan, id) = "pending"

\* C9: for every pending task, a single agent event carrying a completion
\* marker with its id, a commit tool call referencing it, or a todo update
\* with it and a completion indicator marks the task completed and fires
\* onTaskComplete and onProgress.
C9_AnyHeuristicSuffices ==
  [][HandlesAgent
       => \A id \in AllIds :
            (StillPending(id) /\ Carries(Head(stream), id))
              => /\ PlanStatus(plan', id) = "completed"
                 /\ cbTaskComplete'[id] = cbTaskComplete[id] + 1
                 /\ cbProgress'.n > cbProgress.n]_vars

ReturnedOnResult == sePc = "done" /\ seResult.returned /\ seResult.via = "result"

\* C10: after a terminal result event reporting success, every task that
\* was pending in the plan when the run started is completed there, matched
\* by a heuristic or not.
C10_SuccessCompletesPending ==
  (ReturnedOnResult /\ seResult.success)
    => \A i \in 1..Len(sePending) : PlanStatus(plan, sePending[i]) = "completed"

\* a successful run in which some pending task was matched by no heuristic
C10_Witness ==
  /\ ReturnedOnResult
  /\ seResult.success
  /\ \E i \in 1..Len(sePending) :
       /\ sePending[i] \notin seDoneIds
       /\ PlanStatus(plan, sePending[i]) = "completed"

\* ------------------------------------------------------------------------
\* End-to-end scenario: two independent tasks, a scripted stream
\* ------------------------------------------------------------------------

\* a commit tool call referencing a task, in the displayed command or in
\* the tool output
CommitCall(id, where) ==
  IF where = "display"
  THEN AgentEvent("Bash", <<[k |-> "gitcommit", w |-> <<>>], [k |-> "word", w |-> id]>>, <<>>)
  ELSE AgentEvent("Bash", <<[k |-> "gitcommit", w |-> <<>>]>>, <<[k |-> "word", w |-> id]>>)

ScenarioUrls == {"X", "Y"}

ScenarioScript(a, b, wa, wb, url) ==
  <<PlainEvent("status"), PlainEvent("status"), CommitCall(a, wa),
    CommitCall(b, wb), ResultEvent(TRUE, url)>>

InitE2E ==
  /\ jobs = NoJobs
  /\ \E a \in AllIds, b \in AllIds, wa \in {"display", "output"},
        wb \in {"display", "output"}, url \in ScenarioUrls :
       /\ a # b
       /\ plan = [exists |-> TRUE, tasks |-> <<PlanTask(a, {}), PlanTask(b, {})>>]
       /\ session = PlannedSession(plan.tasks)
       /\ script = ScenarioScript(a, b, wa, wb, url)
  /\ scriptPos = 0
  /\ SeIdle
  /\ PtIdle
  /\ CmdIdle
  /\ GnIdle
  /\ PgIdle
  /\ RlIdle
  /\ ExIdle

\* The scripted server pushes its next message
SeEmitScripted ==
  /\ UNCHANGED jobs
  /\ sePc = "stream"
  /\ stream = <<>>
  /\ scriptPos < Len(script)
  /\ stream' = <<script[scriptPos + 1]>>
  /\ scriptPos' = scriptPos + 1
  /\ UNCHANGED <<script, persistVars, seVars, cbVars, outsideSe>>

NextE2E ==
  \/ SeStart
  \/ SeFetchOk
  \/ SeEmitScripted
  \/ SeOnMessage

SpecE2E == InitE2E /\ [][NextE2E]_vars

ScenarioOver ==
  /\ script # <<>>
  /\ scriptPos = Len(script)
  /\ stream = <<>>
  /\ sePc = "done"

outsideCmd ==
  <<stream, scriptVars, seVars, cbVars, ptVars, gnVars, jobs, rlVars, exVars, pgVars>>

\* REPL mount: a session is created when state.json is missing
ReplMount ==
  /\ ~session.exists
  /\ session' = createSession
  /\ UNCHANGED <<plan, cmdVars, outsideCmd>>

\* /plan <description>, up to the await on the plan generator
PlanBegin ==
  /\ planPc = "idle"
  /\ ptPc = "idle"
  /\ LET s0 == IF session.exists THEN session ELSE createSession
         s1 == updateSessionStatus(s0, "planning") IN
     /\ session' = s1
     /\ planSession' = s1
  /\ planPc' = "generating"
  /\ UNCHANGED <<plan, outsideCmd>>

\* /plan: the generator returned tasks; plan.md and the session are saved
PlanFinish ==
  /\ planPc = "generating"
  /\ \E p \in GeneratedPlans :
       /\ plan' = [exists |-> TRUE, tasks |-> p]
       /\ session' =
            updateSessionStatus(
              [planSession EXCEPT !.tasks = PlanTasksAsSessionTasks(p)],
              "plan_ready")
  /\ planPc' = "idle"
  /\ planSession' = NoSession
  /\ UNCHANGED outsideCmd

\* /plan: no tasks generated, or the generator threw
PlanFail ==
  /\ planPc = "generating"
  /\ planPc' = "idle"
  /\ planSession' = NoSession
  /\ UNCHANGED <<session, plan, outsideCmd>>

\* the ship handler once its flags are parsed; returns without saving when
\* there is nothing to run
shipHandler(backgroundMode) ==
  LET s1 == [session EXCEPT !.tasks = planTasksToSessionTasks(plan.tasks)]
      progress == getProgress(s1)
      nextTask == getNextTask(s1) IN
  /\ plan.exists
  /\ session.exists
  /\ progress.completed # progress.total
  /\ nextTask # <<>>
  /\ IF backgroundMode
     THEN /\ session' = [updateSessionStatus(s1, "shipping")
                           EXCEPT !.currentTaskId = nextTask[1].id]
          /\ plan' = plan
     ELSE /\ session' =
               [updateSessionStatus(
                  updateTaskStatus(s1, nextTask[1].id, "running", ""),
                  "shipping")
                  EXCEPT !.currentTaskId = nextTask[1].id]
          /\ plan' = updateTaskInPlan(plan, nextTask[1].id, "running")

\* /ship [--step|--auto|--background]
ShipCommand ==
  /\ planPc = "idle"
  /\ ptPc = "idle"
  /\ \E stepMode \in BOOLEAN, autoMode \in BOOLEAN, backgroundMode \in BOOLEAN :
       /\ ~(autoMode /\ stepMode)
       /\ shipHandler(backgroundMode)
  /\ UNCHANGED <<cmdVars, outsideCmd>>

\* /pause
Pause ==
  /\ planPc = "idle"
  /\ session.exists
  /\ session.status = "shipping"
  /\ session' = updateSessionStatus(session, "paused")
  /\ UNCHANGED <<plan, cmdVars, outsideCmd>>

\* /resume: delegates to the ship handler with no flags
Resume ==
  /\ planPc = "idle"
  /\ ptPc = "idle"
  /\ session.exists
  /\ session.status = "paused"
  /\ shipHandler(FALSE)
  /\ UNCHANGED <<cmdVars, outsideCmd>>

RECURSIVE resetFailed(_)
\* /retry without an argument: every failed plan task back to pending
resetFailed(tasks) ==
  IF tasks = <<>> THEN <<>>
  ELSE <<IF Head(tasks).status = "failed"
         THEN [Head(tasks) EXCEPT !.status = "pending"]
         ELSE Head(tasks)>> \o resetFailed(Tail(tasks))

\* /retry [task-id]: touches plan.md only
Retry ==
  /\ planPc = "idle"
  /\ ptPc = "idle"
  /\ plan.exists
  /\ \/ \E taskId \in AllIds :
          LET i == FindTask(plan.tasks, taskId) IN
          /\ i # 0
          /\ plan.tasks[i].status = "failed"
          /\ plan' = [plan EXCEPT !.tasks[i].status = "pending"]
     \/ /\ \E i \in 1..Len(plan.tasks) : plan.tasks[i].status = "failed"
        /\ plan' = [plan EXCEPT !.tasks = resetFailed(@)]
  /\ UNCHANGED <<session, cmdVars, outsideCmd>>

\* /done: the plan is archived, the session marked completed and emptied
Done ==
  /\ planPc = "idle"
  /\ ptPc = "idle"
  /\ plan.exists
  /\ plan' = NoPlan
  /\ session' =
       IF session.exists
       THEN [updateSessionStatus(session, "completed")
               EXCEPT !.tasks = <<>>, !.currentTaskId = <<>>]
       ELSE session
  /\ UNCHANGED <<cmdVars, outsideCmd>>

\* /reset: the whole .pr-agent directory is removed
Reset ==
  /\ planPc = "idle"
  /\ ptPc = "idle"
  /\ session.exists \/ plan.exists
  /\ session' = NoSession
  /\ plan' = NoPlan
  /\ UNCHANGED <<cmdVars, outsideCmd>>

\* ------------------------------------------------------------------------
\* Per-task mode: runShipEngine and executeTask
\* ------------------------------------------------------------------------

\* tasks one call of runShipEngine may start
MaxExecs == 3

\* what per-task mode never touches; its callbacks only notify the caller
\* and are not recorded
outsidePt ==
  <<stream, scriptVars, seVars, cbVars, cmdVars, gnVars, rlVars, exVars, pgVars>>

\* runShipEngine returns
PtReturn(result) ==
  /\ ptPc' = "returned"
  /\ ptResult' = result

\* the two `break`s of the loop fall through to the final return
PtInterrupted == ShipResult(FALSE, "", ptCompleted, ptTotal, "Execution interrupted", "break")

\* entry of runShipEngine: load the session, count its tasks
PtStart ==
  /\ UNCHANGED jobs
  /\ ptPc = "idle"
  /\ planPc = "idle"
  /\ ptSession = NoSession
  /\ \E stepMode \in BOOLEAN, autoMode \in BOOLEAN, onStepPause \in BOOLEAN :
       ptOpts' = [stepMode |-> stepMode, autoMode |-> autoMode,
                  onStepPause |-> onStepPause]
  /\ IF ~session.exists
     THEN /\ PtReturn(ShipResult(FALSE, "", 0, 0, "No session found", "entry"))
          /\ UNCHANGED <<ptTotal, ptCompleted>>
     ELSE /\ ptTotal' = Len(session.tasks)
          /\ ptCompleted' = CountStatus(session.tasks, "completed")
          /\ ptPc' = "loop"
          /\ ptResult' = NoResult
  /\ UNCHANGED <<persistVars, ptSession, ptNext, ptExec, ptExecs, outsidePt>>

\* a test that takes "no next task" for "all done"
allDoneAssumed(progress) == TRUE

\* `if (progress.completed === progress.total)` once getNextTask gave null
allDone(progress) == progress.completed = progress.total

\* a loop that never looks at the reloaded status
pausedInStorageIgnored(s) == FALSE

\* `if (session.status === 'paused')` on the session just reloaded
pausedInStorage(s) == s.status = "paused"

\* top of the loop: reload, stop when paused, pick the next task and mark it
\* running, or return when getNextTask has nothing
PtLoop ==
  /\ UNCHANGED jobs
  /\ ptPc = "loop"
  /\ LET nextTask == getNextTask(session)
         progress == getProgress(session) IN
     IF ~session.exists \/ pausedInStorage(session)
     THEN /\ PtReturn(PtInterrupted)
          /\ UNCHANGED <<persistVars, ptNext, ptExecs>>
     ELSE IF nextTask = <<>>
     THEN IF allDone(progress)
          THEN /\ session' = updateSessionStatus(session, "completed")
               /\ PtReturn(ShipResult(TRUE, session.prUrl, progress.completed,
                                      progress.total, "", "done"))
               /\ UNCHANGED <<plan, ptNext, ptExecs>>
          ELSE /\ PtReturn(ShipResult(FALSE, "", progress.completed, progress.total,
                                      "Some tasks could not be completed", "blocked"))
               /\ UNCHANGED <<persistVars, ptNext, ptExecs>>
     ELSE /\ ptExecs < MaxExecs
          /\ session' = [updateTaskStatus(session, nextTask[1].id, "running", "")
                           EXCEPT !.currentTaskId = nextTask[1].id]
          /\ plan' = updateTaskInPlan(plan, nextTask[1].id, "running")
          /\ ptNext' = nextTask
          /\ ptExecs' = ptExecs + 1
          /\ ptPc' = "fetch"
          /\ UNCHANGED ptResult
  /\ UNCHANGED <<ptOpts, ptSession, ptTotal, ptCompleted, ptExec, outsidePt>>

\* non-2xx statuses the execute endpoint answers with: throttling, and a
\* server error
HttpErrorStatuses == {429, 500}

\* `HTTP ${response.status}`, the error of a non-2xx answer whose body names
\* none
HttpError(status) == IF status = 429 THEN "HTTP 429" ELSE "HTTP 500"

\* executeTask: the POST throws or answers with a non-2xx status
PtFetchFail ==
  /\ UNCHANGED jobs
  /\ ptPc = "fetch"
  /\ \/ ptExec' = [success |-> FALSE, error |-> "Cannot connect to API",
                    requests |-> 1, jobId |-> ""]
     \/ \E status \in HttpErrorStatuses :
          ptExec' = [success |-> FALSE, error |-> HttpError(status),
                     requests |-> 1, jobId |-> ""]
  /\ ptPc' = "after"
  /\ UNCHANGED <<persistVars, ptOpts, ptSession, ptNext, ptTotal,
                 ptCompleted, ptExecs, ptResult, outsidePt>>

\* executeTask: the POST is answered 2xx with a body response.json() cannot
\* read; the await throws, executeTask rejects and, awaited outside any try,
\* so does runShipEngine
PtFetchBadBody ==
  /\ UNCHANGED jobs
  /\ ptPc = "fetch"
  /\ ptPc' = "rejected"
  /\ UNCHANGED <<persistVars, ptOpts, ptSession, ptNext, ptTotal, ptCompleted,
                 ptExec, ptExecs, ptResult, outsidePt>>

\* executeTask: the POST succeeded; the job id is stored and the stream opened
PtFetchOk ==
  /\ ptPc = "fetch"
  /\ \E jobId \in JobIds :
       /\ session' = IF session.exists THEN [session EXCEPT !.jobId = jobId]
                     ELSE session
       /\ jobs' = IF session.exists THEN registerBackgroundJob(jobs, jobId)
                  ELSE jobs
       /\ ptExec' = [ptExec EXCEPT !.jobId = jobId]
  /\ ptPc' = "stream"
  /\ UNCHANGED <<plan, ptOpts, ptSession, ptNext, ptTotal, ptCompleted,
                 ptExecs, ptResult, outsidePt>>

\* errors a result or error event can carry ("" when it carries none)
EventErrors == {"", "E"}

\* executeTask's es.onmessage on the event that ends the stream: a result
\* (success or not) or an error; every other message only logs
PtOnMessage ==
  /\ ptPc = "stream"
  /\ \/ \E prUrl \in PrUrls :
          /\ session' = IF session.exists /\ prUrl # ""
                        THEN [session EXCEPT !.prUrl = prUrl] ELSE session
          /\ ptExec' = [success |-> TRUE, error |-> "", requests |-> 1,
                        jobId |-> ptExec.jobId]
          /\ jobs' = updateBackgroundJob(jobs, ptExec.jobId, "completed")
     \/ \E error \in EventErrors :
          /\ ptExec' = [success |-> FALSE, error |-> error, requests |-> 1,
                        jobId |-> ptExec.jobId]
          /\ jobs' = updateBackgroundJob(jobs, ptExec.jobId, "failed")
          /\ UNCHANGED session
  /\ ptPc' = "after"
  /\ UNCHANGED <<plan, ptOpts, ptSession, ptNext,
                 ptTotal, ptCompleted, ptExecs, ptResult, outsidePt>>

\* executeTask's es.onerror
PtOnError ==
  /\ ptPc = "stream"
  /\ ptExec' = [success |-> FALSE, error |-> "Connection lost", requests |-> 1,
                jobId |-> ptExec.jobId]
  /\ jobs' = updateBackgroundJob(jobs, ptExec.jobId, "failed")
  /\ ptPc' = "after"
  /\ UNCHANGED <<persistVars, ptOpts, ptSession, ptNext, ptTotal,
                 ptCompleted, ptExecs, ptResult, outsidePt>>

\* a loop that goes on after a failed task in every mode
stopsOnFailureNever(opts) == FALSE

\* `if (!autoMode)` of the failure branch: outside auto mode, stop on failure
stopsOnFailure(opts) == ~opts.autoMode

\* after executeTask resolved: reload, record the task's outcome in the
\* session and in plan.md; a failure outside auto mode returns before the
\* session is saved
PtAfter ==
  /\ UNCHANGED jobs
  /\ ptPc = "after"
  /\ LET id == ptNext[1].id
         stepPause == ptOpts.stepMode /\ ~ptOpts.autoMode /\ ptOpts.onStepPause IN
     IF ~session.exists
     THEN /\ PtReturn(PtInterrupted)
          /\ UNCHANGED <<persistVars, ptCompleted, ptSession>>
     ELSE IF ptExec.success
     THEN /\ session' = updateTaskStatus(session, id, "completed", "")
          /\ plan' = updateTaskInPlan(plan, id, "completed")
          /\ ptCompleted' = ptCompleted + 1
          /\ ptPc' = IF stepPause THEN "steppause" ELSE "loop"
          /\ ptSession' = IF stepPause THEN session' ELSE ptSession
          /\ UNCHANGED ptResult
     ELSE /\ plan' = updateTaskInPlan(plan, id, "failed")
          /\ UNCHANGED ptCompleted
          /\ IF stopsOnFailure(ptOpts)
             THEN /\ PtReturn(ShipResult(FALSE, "", ptCompleted, ptTotal,
                                         ptExec.error, "failed"))
                  /\ UNCHANGED <<session, ptSession>>
             ELSE /\ session' = updateTaskStatus(session, id, "failed", ptExec.error)
                  /\ ptPc' = "loop"
                  /\ UNCHANGED <<ptSession, ptResult>>
  /\ UNCHANGED <<ptOpts, ptNext, ptTotal, ptExec, ptExecs, outsidePt>>

\* onStepPause resolved: continue with the loop, or mark the session paused
\* (on the object loaded before the wait) and return
PtStepPause ==
  /\ UNCHANGED jobs
  /\ ptPc = "steppause"
  /\ \E continueExec \in BOOLEAN :
       IF continueExec
       THEN /\ ptPc' = "loop"
            /\ UNCHANGED <<session, ptResult>>
       ELSE /\ session' = updateSessionStatus(ptSession, "paused")
            /\ PtReturn(ShipResult(TRUE, "", ptCompleted, ptTotal, "", "paused"))
  /\ ptSession' = NoSession
  /\ UNCHANGED <<plan, ptOpts, ptNext, ptTotal, ptCompleted, ptExec, ptExecs,
                 outsidePt>>

\* the caller takes the ShipResult, or the rejection; the call's locals are
\* gone
PtResolved ==
  /\ UNCHANGED jobs
  /\ ptPc \in {"returned", "rejected"}
  /\ ptPc' = "idle"
  /\ ptOpts' = NoOpts
  /\ ptSession' = NoSession
  /\ ptNext' = <<>>
  /\ ptTotal' = 0
  /\ ptCompleted' = 0
  /\ ptExec' = NoExec
  /\ ptExecs' = 0
  /\ ptResult' = NoResult
  /\ UNCHANGED <<persistVars, outsidePt>>

\* ------------------------------------------------------------------------
\* The commands and per-task mode together
\* ------------------------------------------------------------------------

Init ==
  /\ jobs = NoJobs
  /\ session = NoSession
  /\ plan = NoPlan
  /\ NoScript
  /\ SeIdle
  /\ PtIdle
  /\ CmdIdle
  /\ GnIdle
  /\ PgIdle
  /\ RlIdle
  /\ ExIdle

Next ==
  \/ ReplMount
  \/ PlanBegin
  \/ PlanFinish
  \/ PlanFail
  \/ ShipCommand
  \/ Pause
  \/ Resume
  \/ Retry
  \/ Done
  \/ Reset
  \/ PtStart
  \/ PtLoop
  \/ PtFetchFail
  \/ PtFetchBadBody
  \/ PtFetchOk
  \/ PtOnMessage
  \/ PtOnError
  \/ PtAfter
  \/ PtStepPause
  \/ PtResolved

Spec == Init /\ [][Next]_vars

\* the session holds a task with this id and status running
IsRunningIn(s, id) ==
  \E j \in 1..Len(s.tasks) : s.tasks[j].id = id /\ s.tasks[j].status = "running"

\* every dependency of the task names a completed task of the same session
EveryDepCompletedIn(s, task) ==
  \A depId \in task.deps :
    \E j \in 1..Len(s.tasks) :
      s.tasks[j].id = depId /\ s.tasks[j].status = "completed"

\* C2: whenever a task of the persisted Session enters running (it is running
\* after a step and was not running before it), every id in its
\* dependencies names a task of that Session whose status is completed at
\* that moment.
C2_RunningOnlyWithDepsCompleted ==
  [][\A i \in 1..Len(session'.tasks) :
       (/\ session'.tasks[i].status = "running"
        /\ ~IsRunningIn(session, session'.tasks[i].id))
         => EveryDepCompletedIn(session', session'.tasks[i])]_vars

\* a task with dependencies is running while per-task mode executes it
C2_Witness ==
  /\ ptPc = "stream"
  /\ \E i \in 1..Len(session.tasks) :
       /\ session.tasks[i].status = "running"
       /\ session.tasks[i].id = ptNext[1].id
       /\ Cardinality(session.tasks[i].deps) = 2

\* the edges of the Session status graph: idle -> planning -> plan_ready ->
\* shipping <-> paused -> completed, shipping -> error, and a terminal
\* session reset to idle
SessionStatusEdges ==
  {<<"idle", "planning">>, <<"planning", "plan_ready">>,
   <<"plan_ready", "shipping">>, <<"shipping", "paused">>,
   <<"paused", "shipping">>, <<"paused", "completed">>,
   <<"shipping", "completed">>, <<"shipping", "error">>,
   <<"completed", "idle">>, <<"error", "idle">>}

\* C3: every change of the persisted Session's status follows the graph
\* idle -> planning -> plan_ready -> shipping <-> paused -> completed, plus
\* shipping -> error, a terminal session being left only towards idle.
C3_SessionStatusTransitions ==
  [][(session.exists /\ session'.exists /\ session'.status # session.status)
       => <<session.status, session'.status>> \in SessionStatusEdges]_vars

\* ------------------------------------------------------------------------
\* The scheduler on its own: getNextTask over task lists in every status
\* ------------------------------------------------------------------------

\* a dependency on an id that names no task of the list
PlanDangling == <<PlanTask(IdU1, {IdT1}), PlanTask(IdU2, {}), PlanTask(IdU10, {IdU2})>>

\* the chain listed against its dependency order
PlanReversed == <<PlanTask(IdU10, {IdU1, IdU2}), PlanTask(IdU2, {IdU1}), PlanTask(IdU1, {})>>

SchedPlans == {PlanChain, PlanReversed, PlanDangling, PlanCycle, PlanIndep}

\* the session tasks of plan p with statuses st
TasksWithStatuses(p, st) ==
  [i \in 1..Len(p) |->
     [id |-> p[i].id, deps |-> p[i].deps, status |-> st[i], error |-> ""]]

SessionOf(tasks) == [createSession EXCEPT !.tasks = tasks]

InitSched ==
  /\ jobs = NoJobs
  /\ PgIdle
  /\ RlIdle
  /\ ExIdle
  /\ session = NoSession
  /\ plan = NoPlan
  /\ NoScript
  /\ SeIdle
  /\ PtIdle
  /\ CmdIdle
  /\ \E p \in SchedPlans :
       \E st \in [1..Len(p) -> TaskStatuses] :
         gnTasks = TasksWithStatuses(p, st)
  /\ gnResult = <<>>
  /\ gnCalled = FALSE

outsideGn ==
  <<persistVars, stream, scriptVars, seVars, cbVars, ptVars, cmdVars, jobs,
    rlVars, exVars, pgVars>>

\* getNextTask is called on the list
GnCall ==
  /\ ~gnCalled
  /\ gnResult' = getNextTask(SessionOf(gnTasks))
  /\ gnCalled' = TRUE
  /\ UNCHANGED <<gnTasks, outsideGn>>

\* the task it returned is marked completed
GnMarkCompleted ==
  /\ gnCalled
  /\ gnResult # <<>>
  /\ gnTasks' = updateTaskStatus(SessionOf(gnTasks), gnResult[1].id, "completed", "").tasks
  /\ gnResult' = <<>>
  /\ gnCalled' = FALSE
  /\ UNCHANGED outsideGn

NextSched == GnCall \/ GnMarkCompleted

SpecSched == InitSched /\ [][NextSched]_vars

\* positions of the pending tasks whose every dependency is completed
RunnablePositions(tasks) ==
  {i \in 1..Len(tasks) :
     /\ tasks[i].status = "pending"
     /\ EveryDepCompletedIn([tasks |-> tasks], tasks[i])}

StatusesAre(tasks, a, b, c) ==
  /\ tasks[1].status = a
  /\ tasks[2].status = b
  /\ tasks[3].status = c

IsChain(tasks) ==
  /\ Len(tasks) = 3
  /\ \A i \in 1..3 : tasks[i].id = PlanChain[i].id /\ tasks[i].deps = PlanChain[i].deps

\* C5: getNextTask returns the first task in plan order that is pending and
\* whose every dependency is completed in the same list, or null when there
\* is none; for the chain A, B(A), C(A,B) that is A while all are pending, B
\* once A is completed, C once B is completed, null once all are completed.
C5_GetNextTask ==
  gnCalled =>
    /\ LET r == RunnablePositions(gnTasks) IN
       IF r = {} THEN gnResult = <<>>
       ELSE gnResult = <<gnTasks[CHOOSE i \in r : \A j \in r : i <= j]>>
    /\ IsChain(gnTasks) =>
         /\ StatusesAre(gnTasks, "pending", "pending", "pending")
              => gnResult # <<>> /\ gnResult[1].id = IdU1
         /\ StatusesAre(gnTasks, "completed", "pending", "pending")
              => gnResult # <<>> /\ gnResult[1].id = IdU2
         /\ StatusesAre(gnTasks, "completed", "completed", "pending")
              => gnResult # <<>> /\ gnResult[1].id = IdU10
         /\ StatusesAre(gnTasks, "completed", "completed", "completed")
              => gnResult = <<>>

\* the chain with A and B completed: getNextTask answered C
C5_Witness ==
  /\ gnCalled
  /\ IsChain(gnTasks)
  /\ StatusesAre(gnTasks, "completed", "completed", "pending")
  /\ gnResult # <<>>
  /\ gnResult[1].id = IdU10

\* ------------------------------------------------------------------------
\* Failure handling of the orchestrators
\* ------------------------------------------------------------------------

\* runShipEngine takes up the outcome of executeTask: a failed one, with the
\* session still in storage
HandlesFailedTask ==
  /\ ptPc = "after"
  /\ ptPc' # "after"
  /\ session.exists
  /\ ~ptExec.success

\* the persisted session shows task id as failed with this error message
ShowsFailed(s, id, error) ==
  \E i \in 1..Len(s.tasks) :
    /\ s.tasks[i].id = id
    /\ s.tasks[i].status = "failed"
    /\ s.tasks[i].error = error

\* C11: once per-task mode has handled a failed task (and returned, outside
\* auto mode), the persisted Session shows that Task with status failed and
\* the reported error message, in auto mode and outside it alike.
C11_FailureRecordedOnTask ==
  [][HandlesFailedTask
       => ShowsFailed(session', ptNext[1].id, ptExec.error)]_vars

\* no task of `after` is running unless its id was already running in `before`
NoTaskStarted(before, after) ==
  \A i \in 1..Len(after) :
    after[i].status = "running"
      => \E j \in 1..Len(before) :
           before[j].id = after[i].id /\ before[j].status = "running"

\* C12: when a task fails in per-task mode and autoMode is off, the loop
\* stops and returns the failure without starting any further task; when
\* autoMode is on it goes back to the loop, whose next task is the first
\* runnable one of the reloaded session.
C12_FailureStopsUnlessAuto ==
  [][/\ HandlesFailedTask =>
          IF ptOpts.autoMode
          THEN ptPc' = "loop"
          ELSE /\ ptPc' = "returned"
               /\ ~ptResult'.success
               /\ ptResult'.error = ptExec.error
               /\ NoTaskStarted(session.tasks, session'.tasks)
               /\ NoTaskStarted(plan.tasks, plan'.tasks)
     /\ (ptPc = "loop" /\ ptPc' = "fetch") =>
          LET r == RunnablePositions(session.tasks) IN
          /\ r # {}
          /\ ptNext' = <<session.tasks[CHOOSE i \in r : \A j \in r : i <= j]>>]_vars

\* in auto mode a second task is being executed after the first one failed
C12_Witness ==
  /\ ptOpts.autoMode
  /\ ptPc = "fetch"
  /\ ptExecs = 2
  /\ Len(session.tasks) = 2
  /\ \E i \in 1..2 : session.tasks[i].status = "failed"
  /\ \E i \in 1..2 :
       session.tasks[i].status = "running" /\ session.tasks[i].id = ptNext[1].id

\* C13: whenever runShipEngine or runShipEngineSingleExecution has returned
\* success = true, every task of the plan has status completed.
C13_SuccessMeansPlanCompleted ==
  /\ (ptPc = "returned" /\ ptResult.success) => AllCompleted(plan.tasks)
  /\ (sePc = "done" /\ seResult.success) => AllCompleted(plan.tasks)

\* single-session mode returned on a terminal error event, on the loss of
\* the stream connection, or on a terminal result reporting failure
ReturnedOnUnrecoverableFailure ==
  /\ sePc = "done"
  /\ seResult.via \in {"error", "onerror", "result"}
  /\ ~seResult.success

\* C14: once the orchestrator has returned on an unrecoverable failure while
\* shipping (error event, connection loss, result reporting failure), the
\* Session has moved from shipping to error and is not left in shipping.
C14_UnrecoverableFailureSetsError ==
  ReturnedOnUnrecoverableFailure => session.status = "error"

\* C15: per-task mode reads the Session from storage at the head of every
\* iteration; when the stored status is paused (set by the pause command,
\* possibly while the previous task was executing) the loop stops and
\* returns, and no further task is marked running or executed.
C15_PausedInStorageStopsLoop ==
  [][(/\ ptPc = "loop"
      /\ ptPc' # "loop"
      /\ session.exists
      /\ session.status = "paused")
       => /\ ptPc' = "returned"
          /\ ptResult'.returned
          /\ ~ptResult'.success
          /\ ptExecs' = ptExecs
          /\ NoTaskStarted(session.tasks, session'.tasks)
          /\ NoTaskStarted(plan.tasks, plan'.tasks)]_vars

\* the loop stopped on a pause stored while it had a task behind it and a
\* runnable task still ahead
C15_Witness ==
  /\ ptPc = "returned"
  /\ ptResult.via = "break"
  /\ session.exists
  /\ session.status = "paused"
  /\ ptExecs >= 1
  /\ RunnablePositions(session.tasks) # {}

\* ------------------------------------------------------------------------
\* Single-session mode next to another process running the pause command
\* ------------------------------------------------------------------------

NextSinglePause ==
  \/ SeStart
  \/ SeFetchFail
  \/ SeFetchBadBody
  \/ SeFetchOk
  \/ SeEmit
  \/ SeOnMessage
  \/ SeOnError
  \/ Pause

SpecSinglePause == InitSingle /\ [][NextSinglePause]_vars

\* C16: every Session write of the orchestrator is based on a copy loaded
\* from storage with no suspension point in between, so what another process
\* persisted during the wait survives: the write that stores the job id
\* after the execute request changes nothing but the job id of the Session
\* in storage.
C16_WritesAreBasedOnFreshCopy ==
  [][(sePc = "fetch" /\ sePc' = "stream")
       => session' = [session EXCEPT !.jobId = session'.jobId]]_vars

\* retries the Retrying Executor is configured with (api-client.ts)
maxRetries == 3

\* C17: the execute call goes through the Retrying Executor, so a task is
\* reported failed on a 429 answer only after the request was retried
\* maxRetries times (maxRetries + 1 requests in all).
C17_ThrottledExecuteIsRetried ==
  (ptPc = "after" /\ ptExec.error = HttpError(429))
    => ptExec.requests = maxRetries + 1

\* C18: when the stream connection is lost before a terminal event, the
\* orchestrator returns a 'Connection lost' failure and records nothing
\* that marks the remote job as terminated: the job's registry entry is
\* still running.
C18_ConnectionLossLeavesJobRunning ==
  (sePc = "done" /\ seResult.via = "onerror")
    => /\ ~seResult.success
       /\ seResult.error = "Connection lost"
       /\ jobs[seSession.jobId] = "running"

\* C19: every failure path of the orchestrator returns a structured result:
\* neither runShipEngine nor runShipEngineSingleExecution ever rejects or
\* throws.
C19_NeverRejects ==
  /\ ptPc # "rejected"
  /\ sePc # "rejected"

\* the session has pending tasks and every one of them is blocked: some
\* dependency is not completed, names no task, or closes a cycle
AllPendingBlocked(s) ==
  /\ \E i \in 1..Len(s.tasks) : s.tasks[i].status = "pending"
  /\ RunnablePositions(s.tasks) = {}

\* C20: when every remaining pending task is blocked (unmet, unknown or
\* cyclic dependencies), getNextTask returns null and the loop head of
\* runShipEngine returns a blocked failure at once: no task is marked
\* running, the Session is not set to completed, nothing is written.
C20_BlockedPlanReturnsFailure ==
  [][(/\ ptPc = "loop"
      /\ ptPc' # "loop"
      /\ session.exists
      /\ session.status # "paused"
      /\ AllPendingBlocked(session))
       => /\ getNextTask(session) = <<>>
          /\ ptPc' = "returned"
          /\ ptResult'.returned
          /\ ~ptResult'.success
          /\ ptResult'.error = "Some tasks could not be completed"
          /\ session' = session
          /\ plan' = plan]_vars

\* runShipEngine returned the blocked failure on a dependency cycle
C20_Witness ==
  /\ ptPc = "returned"
  /\ ptResult.via = "blocked"
  /\ Len(session.tasks) = 2
  /\ \A i \in 1..2 :
       /\ session.tasks[i].status = "pending"
       /\ session.tasks[i].deps = PlanCycle[i].deps

\* ------------------------------------------------------------------------
\* Token bucket limiter: the calls on one TokenBucketRateLimiter
\* ------------------------------------------------------------------------

outsideRl ==
  <<persistVars, stream, scriptVars, seVars, cbVars, ptVars, cmdVars, gnVars,
    jobs, exVars, pgVars, hint>>

\* a limiter constructed with any of the configurations, nothing else running
InitLimiter ==
  /\ jobs = NoJobs
  /\ session = NoSession
  /\ plan = NoPlan
  /\ NoScript
  /\ SeIdle
  /\ PtIdle
  /\ CmdIdle
  /\ GnIdle
  /\ PgIdle
  /\ ExIdle
  /\ config \in RateLimitConfig
  /\ now = 0
  /\ states = NoStates
  /\ rlCall = NoCall
  /\ granted = 0
  /\ createdAt = 0
  /\ emptiedAt = -1
  /\ hint = NoHint

\* the call recorded with its RateLimitResult
CallOf(op, key, tokens, result) ==
  [op |-> op, key |-> key, tokens |-> tokens, allowed |-> result.allowed,
   tokensRemaining |-> result.tokensRemaining,
   retryAfter |-> result.retryAfter]

\* the key whose grants are added up
Metered == "a"

\* the bookkeeping of tokens granted since the entry of the key was made
Account(key, amount) ==
  IF key # Metered
  THEN UNCHANGED <<granted, createdAt>>
  ELSE IF states[key].present
       THEN /\ granted' = granted + amount
            /\ UNCHANGED createdAt
       ELSE /\ granted' = amount
            /\ createdAt' = now

\* a millisecond passes
RlTick ==
  /\ now < MaxTime
  /\ now' = now + 1
  /\ rlCall' = [NoCall EXCEPT !.op = "tick"]
  /\ UNCHANGED <<config, states, granted, createdAt, emptiedAt, outsideRl>>

\* limiter.consume(key, tokens)
RlConsume ==
  \E key \in Keys, tokens \in 1..(MaxBucket + 1) :
    LET r == consume(config, states, key, tokens, now)
    IN  /\ states' = r.states
        /\ rlCall' = CallOf("consume", key, tokens, r.result)
        /\ Account(key, IF r.result.allowed THEN tokens ELSE 0)
        /\ emptiedAt' = IF key = Metered /\ r.result.allowed
                        THEN IF tokens = config.maxTokens THEN now ELSE -1
                        ELSE emptiedAt
        /\ UNCHANGED <<config, now, outsideRl>>

\* limiter.getTokens(key)
RlGetTokens ==
  \E key \in Keys :
    LET r == getTokens(config, states, key, now)
    IN  /\ states' = r.states
        /\ rlCall' = [NoCall EXCEPT !.op = "getTokens", !.key = key,
                                    !.tokensRemaining = r.result]
        /\ Account(key, 0)
        /\ UNCHANGED <<config, now, emptiedAt, outsideRl>>

\* limiter.reset(key)
RlReset ==
  \E key \in Keys :
    /\ states' = reset(states, key)
    /\ rlCall' = [NoCall EXCEPT !.op = "reset", !.key = key]
    /\ granted' = IF key = Metered THEN 0 ELSE granted
    /\ createdAt' = IF key = Metered THEN 0 ELSE createdAt
    /\ emptiedAt' = IF key = Metered THEN -1 ELSE emptiedAt
    /\ UNCHANGED <<config, now, outsideRl>>

NextLimiter == RlTick \/ RlConsume \/ RlGetTokens \/ RlReset

SpecLimiter == InitLimiter /\ [][NextLimiter]_vars

\* C21: for every key, 0 <= tokens <= maxTokens after any sequence of
\* consume (n >= 1), getTokens, reset and clock advances.
C21_TokensWithinBounds ==
  \A k \in Keys :
    states[k].present =>
      /\ 0 <= states[k].tokens
      /\ states[k].tokens <= config.maxTokens

\* one token was taken from a bucket of 2 and a refill of 2 filled it again
C21_Witness ==
  /\ config.maxTokens = 2
  /\ config.refillRate = 2
  /\ states[Metered].present
  /\ granted = 1
  /\ states[Metered].tokens = 2

\* the step is a consume or getTokens call on key k, whose entry exists
RefillingCallOn(k) ==
  /\ rlCall'.op \in {"consume", "getTokens"}
  /\ rlCall'.key = k
  /\ states[k].present

\* C22: a refill that credits k > 0 whole intervals advances lastRefill by
\* exactly k * refillInterval, not to the current time, so no fraction of an
\* interval already waited is lost.
C22_RefillKeepsFraction ==
  [][\A k \in Keys :
       (RefillingCallOn(k) /\ intervalsPassed(config, states[k], now) > 0)
         => states'[k].lastRefill =
              states[k].lastRefill
                + intervalsPassed(config, states[k], now)
                    * config.refillInterval]_vars

\* what getTokens(k) would return at time t from the map sts
TokensAt(sts, k, t) == Refilled(config, sts, k, t).tokens

\* the times up to two refill intervals from now
Horizon == now..(now + 6)

RetryAfterPositive(r) == r.inf \/ r.ms > 0

\* C23: a consume(key, n) with n above the available tokens returns
\* allowed = false with retryAfter > 0 and leaves the key's bucket as it
\* was: at the time of the call and at any later time the key holds the
\* tokens it would have held had the call not been made.
C23_DeniedConsumeLeavesBucket ==
  [][\A k \in Keys :
       (/\ rlCall'.op = "consume"
        /\ rlCall'.key = k
        /\ states[k].present
        /\ rlCall'.tokens > TokensAt(states, k, now))
         => /\ ~rlCall'.allowed
            /\ RetryAfterPositive(rlCall'.retryAfter)
            /\ \A t \in Horizon : TokensAt(states', k, t) = TokensAt(states, k, t)]_vars

\* the last call was getTokens on the metered key, made at the current time
\* after one consume had taken its whole full bucket
GotTokensAfterEmptying ==
  /\ rlCall.op = "getTokens"
  /\ rlCall.key = Metered
  /\ emptiedAt >= 0

GrantLimit(t) ==
  config.maxTokens
    + config.refillRate * ((t - createdAt) \div config.refillInterval)

\* a single-token consume on the metered key with no time passed since its
\* bucket was made (or making it)
SingleTokenAtCreation ==
  /\ rlCall'.op = "consume"
  /\ rlCall'.key = Metered
  /\ rlCall'.tokens = 1
  /\ states[Metered].present => now = createdAt

\* C25: the tokens granted on a key within time T of its bucket's creation
\* never exceed maxTokens + refillRate * floor(T / refillInterval); with no
\* time passing a full bucket grants single-token requests until maxTokens
\* tokens are out and denies every one after that.
C25_ThroughputBounded ==
  [][/\ states'[Metered].present => granted' <= GrantLimit(now)'
     /\ SingleTokenAtCreation =>
          (rlCall'.allowed <=>
             (IF states[Metered].present THEN granted ELSE 0)
               < config.maxTokens)]_vars

\* the bound is met after one refill: 2 from the burst and 1 refilled
C25_Witness ==
  /\ states[Metered].present
  /\ config.maxTokens = 2
  /\ config.refillRate = 1
  /\ now - createdAt >= config.refillInterval
  /\ granted = 3
  /\ rlCall.op = "consume"
  /\ rlCall.allowed

\* C26: keys are independent: a consume, getTokens or reset on one key
\* leaves the token count and lastRefill of every other key as they were.
C26_KeysIndependent ==
  [][rlCall'.op \in {"consume", "getTokens", "reset"}
       => \A k \in Keys \ {rlCall'.key} : states'[k] = states[k]]_vars

\* both keys have a bucket, with different counts and refill times, and the
\* last call took tokens from one of them
C26_Witness ==
  /\ states["a"].present
  /\ states["b"].present
  /\ states["a"].tokens # states["b"].tokens
  /\ states["a"].lastRefill # states["b"].lastRefill
  /\ rlCall.op = "consume"
  /\ rlCall.key = "b"
  /\ rlCall.allowed

\* ------------------------------------------------------------------------
\* Retrying executor: RateLimitedExecutor.execute, one call at a time
\* ------------------------------------------------------------------------

outsideEx ==
  <<persistVars, stream, scriptVars, seVars, cbVars, ptVars, cmdVars, gnVars,
    jobs, config, rlCall, granted, createdAt, emptiedAt, hint, retryConfig,
    calls, pgVars>>

\* an executor constructed with any limiter and retry configuration
InitExec ==
  /\ jobs = NoJobs
  /\ session = NoSession
  /\ plan = NoPlan
  /\ NoScript
  /\ SeIdle
  /\ PtIdle
  /\ CmdIdle
  /\ GnIdle
  /\ PgIdle
  /\ config \in RateLimitConfig
  /\ now = 0
  /\ states = NoStates
  /\ rlCall = NoCall
  /\ granted = 0
  /\ createdAt = 0
  /\ emptiedAt = -1
  /\ hint = NoHint
  /\ retryConfig \in RetryConfig
  /\ ex = NoExecute
  /\ calls = NoCallers

\* the locals of execute(key, fn, tokens) at its entry: attempt = 0
enter(sts, key, tokens) ==
  [NoExecute EXCEPT !.pc = "loop", !.key = key, !.tokens = tokens,
                    !.tokens0 = IF sts[key].present
                                THEN sts[key].tokens
                                ELSE config.maxTokens]

\* one pass of the loop head by the call e at time t: limiter.consume, then
\* on to fn, into the backoff sleep, or the rejection
loopHead(e, sts, t) ==
  IF e.attempt > retryConfig.maxRetries
  THEN [ex |-> [e EXCEPT !.pc = "rejected", !.outcome = "retries"],
        states |-> sts]
  ELSE LET r == consume(config, sts, e.key, e.tokens, t)
           seen == [e EXCEPT
                      !.consumes = @ + 1,
                      !.last = r.result,
                      !.refilled =
                        @ \/ (/\ sts[e.key].present
                              /\ intervalsPassed(config, sts[e.key], t) > 0)]
       IN  [states |-> r.states,
            ex |->
              IF r.result.allowed
              THEN [seen EXCEPT !.pc = "fn"]
              ELSE IF attemptsExhausted(retryConfig, e.attempt)
                   THEN [seen EXCEPT
                           !.pc = "rejected",
                           !.denials = @ + 1,
                           !.outcome = "rate limit exceeded",
                           !.retryAfter = r.result.retryAfter]
                   ELSE [seen EXCEPT
                           !.pc = "sleepDenied",
                           !.denials = @ + 1,
                           !.wakeAt =
                             t + admissionDelay(retryConfig,
                                                r.result.retryAfter, e.attempt),
                           !.sleeps =
                             Append(@, admissionDelay(retryConfig,
                                         r.result.retryAfter, e.attempt))]]

\* fn of the call e settles at time t with outcome o: its value, a
\* throttling error or another error
fnSettles(e, o, t) ==
  LET called == [e EXCEPT !.fnLog = Append(@, o)]
  IN  IF o = "value"
      THEN [called EXCEPT !.pc = "resolved", !.outcome = "value"]
      ELSE IF isThrottling(o) /\ mayRetry(retryConfig, e.attempt + 1)
           THEN [called EXCEPT
                   !.pc = "sleepThrottled",
                   !.attempt = @ + 1,
                   !.wakeAt = t + throttleDelay(retryConfig, e.attempt + 1),
                   !.sleeps =
                     Append(@, throttleDelay(retryConfig, e.attempt + 1))]
           ELSE [called EXCEPT
                   !.pc = "rejected",
                   !.attempt = IF isThrottling(o) THEN @ + 1 ELSE @,
                   !.outcome = "error",
                   !.error = o]

\* as wakes, the attempt counter left alone after a denial
wakesKeepAttempt(e) == [e EXCEPT !.pc = "loop"]

\* the backoff sleep of the call e ends: `continue`, or `attempt++` after a
\* denial
wakes(e) ==
  [e EXCEPT !.pc = "loop",
            !.attempt = IF e.pc = "sleepDenied" THEN @ + 1 ELSE @]

\* execute(key, fn, tokens) is called
ExStart ==
  /\ ex.pc = "idle"
  /\ now < MaxTime
  /\ \E key \in Keys, tokens \in 1..MaxBucket :
       ex' = enter(states, key, tokens)
  /\ UNCHANGED <<now, states, outsideEx>>

\* the loop head
ExConsume ==
  /\ ex.pc = "loop"
  /\ ex' = loopHead(ex, states, now).ex
  /\ states' = loopHead(ex, states, now).states
  /\ UNCHANGED <<now, outsideEx>>

\* fn settles
ExFn ==
  /\ ex.pc = "fn"
  /\ \E o \in FnOutcomes : ex' = fnSettles(ex, o, now)
  /\ UNCHANGED <<now, states, outsideEx>>

\* time passes while fn is awaited
ExTick ==
  /\ ex.pc = "fn"
  /\ now < MaxTime
  /\ now' = now + 1
  /\ UNCHANGED <<states, ex, outsideEx>>

\* the timer of the backoff sleep fires
ExWake ==
  /\ ex.pc \in {"sleepThrottled", "sleepDenied"}
  /\ now' = Max(now, ex.wakeAt)
  /\ ex' = wakes(ex)
  /\ UNCHANGED <<states, outsideEx>>

\* the caller has its answer
ExSettled ==
  /\ ex.pc \in {"resolved", "rejected"}
  /\ ex' = NoExecute
  /\ UNCHANGED <<now, states, outsideEx>>

NextExec == ExStart \/ ExConsume \/ ExFn \/ ExTick \/ ExWake \/ ExSettled

SpecExec == InitExec /\ [][NextExec]_vars

\* the same with the scheduling of the code: the loop head runs as soon as it
\* is reached, every fn call settles, every timer fires
SpecExecFair ==
  /\ SpecExec
  /\ WF_vars(ExConsume)
  /\ WF_vars(ExFn)
  /\ WF_vars(ExWake)

\* the execute call has settled
Settled == ex.pc \in {"resolved", "rejected"}

\* how many of the calls of fn were throttled
Throttled == Cardinality({i \in 1..Len(ex.fnLog) : isThrottling(ex.fnLog[i])})

\* fn only ever returned its value or a throttling error
OnlyThrottledOrValue ==
  \A i \in 1..Len(ex.fnLog) :
    ex.fnLog[i] = "value" \/ isThrottling(ex.fnLog[i])

\* C27: with the limiter admitting every attempt, a fn throttled k times
\* (k <= maxRetries) and then successful makes execute return its value
\* after exactly k + 1 calls; a fn throttled on every call makes execute
\* reject with the throttling error after exactly maxRetries + 1 calls.
C27_ThrottledFnIsRetried ==
  (Settled /\ ex.denials = 0 /\ OnlyThrottledOrValue) =>
    IF Throttled <= retryConfig.maxRetries
    THEN /\ ex.pc = "resolved"
         /\ ex.outcome = "value"
         /\ ex.fnLog[Len(ex.fnLog)] = "value"
         /\ Len(ex.fnLog) = Throttled + 1
    ELSE /\ ex.pc = "rejected"
         /\ ex.outcome = "error"
         /\ isThrottling(ex.error)
         /\ ex.error = ex.fnLog[Len(ex.fnLog)]
         /\ Len(ex.fnLog) = retryConfig.maxRetries + 1

\* throttled once, then successful: fn was called exactly twice
C27_Witness ==
  /\ ex.pc = "resolved"
  /\ ex.denials = 0
  /\ ex.fnLog = <<"HTTP 429", "value">>
  /\ retryConfig.maxRetries >= 1

\* C28: when the limiter denies every admission attempt of an execute call,
\* fn is never called and execute rejects with the rate-limit-exceeded error
\* carrying the last retryAfter, after exactly maxRetries + 1 attempts.
C28_DeniedAdmissionRejects ==
  (Settled /\ ex.consumes = ex.denials) =>
    /\ ex.fnLog = <<>>
    /\ ex.pc = "rejected"
    /\ ex.outcome = "rate limit exceeded"
    /\ ex.retryAfter = ex.last.retryAfter
    /\ RetryAfterPositive(ex.retryAfter)
    /\ ex.consumes = retryConfig.maxRetries + 1

\* a bucket emptied earlier, zero refill rate, maxRetries = 1: rejected
\* after 2 attempts and one backoff sleep
C28_Witness ==
  /\ ex.pc = "rejected"
  /\ ex.outcome = "rate limit exceeded"
  /\ config.refillRate = 0
  /\ retryConfig.maxRetries = 1
  /\ ex.tokens = 1
  /\ ex.tokens0 = 0
  /\ ex.consumes = 2
  /\ Len(ex.sleeps) = 1
  /\ ex.fnLog = <<>>

\* execute rejected with an error of fn that signals no throttling
RejectedWithOtherError ==
  /\ Settled
  /\ ex.outcome = "error"
  /\ ex.error = "boom"

\* C29 as stated: an error of fn that is not a throttling signal makes
\* execute reject with that error, fn having been called exactly once by
\* that execute call and no backoff sleep taken.
C29_OtherErrorAfterOneCallNoSleep ==
  RejectedWithOtherError =>
    /\ ex.pc = "rejected"
    /\ ex.error = ex.fnLog[Len(ex.fnLog)]
    /\ Len(ex.fnLog) = 1
    /\ ex.sleeps = <<>>

\* C29, amended: an error of fn that is not a throttling signal makes
\* execute reject with that error at once: it was the last call of fn, every
\* earlier call was throttled, and every backoff sleep of the call came
\* before it (one per throttled call and per denied admission); raised by
\* the first call after an admission granted at once, fn was called exactly
\* once and no sleep was taken.
C29_OtherErrorPropagatesAtOnce ==
  RejectedWithOtherError =>
    /\ ex.pc = "rejected"
    /\ ex.error = ex.fnLog[Len(ex.fnLog)]
    /\ \A i \in 1..(Len(ex.fnLog) - 1) :
         ex.fnLog[i] \in {"HTTP 429", "rate limit reached"}
    /\ Len(ex.sleeps) = (Len(ex.fnLog) - 1) + ex.denials
    /\ ex.consumes = Len(ex.fnLog) + ex.denials
    /\ (ex.consumes = 1) => (Len(ex.fnLog) = 1 /\ ex.sleeps = <<>>)

\* the first call of fn raised the error although retries were allowed
C29_Witness ==
  /\ RejectedWithOtherError
  /\ retryConfig.maxRetries >= 1
  /\ ex.consumes = 1
  /\ ex.fnLog = <<"boom">>
  /\ ex.sleeps = <<>>

\* C30: tokens are never refunded on remote throttling: every call of fn,
\* throttled or not, has consumed its tokens, so an execute call that called
\* fn m times with no refill in between leaves the bucket exactly
\* m * tokens lower than it found it.
C30_NoRefundOnThrottling ==
  (Settled /\ ~ex.refilled) =>
    /\ ex.consumes - ex.denials = Len(ex.fnLog)
    /\ Len(ex.fnLog) > 0 =>
         /\ states[ex.key].present
         /\ states[ex.key].tokens = ex.tokens0 - Len(ex.fnLog) * ex.tokens

\* fn was throttled twice and execute gave up: the bucket is 2 tokens lower
C30_Witness ==
  /\ ex.pc = "rejected"
  /\ ~ex.refilled
  /\ ex.tokens = 1
  /\ ex.fnLog = <<"HTTP 429", "HTTP 429">>
  /\ ex.tokens0 = 2
  /\ states[ex.key].tokens = 0

\* ------------------------------------------------------------------------
\* Backoff, concurrency and termination of the executor; remaining claims
\* ------------------------------------------------------------------------

\* the step starts a backoff sleep
StartsSleep == Len(ex'.sleeps) = Len(ex.sleeps) + 1

\* the delay of the sleep the step starts
NewDelay == ex'.sleeps[Len(ex'.sleeps)]

\* C31: every backoff sleep of execute is clamped to maxDelay: after a
\* retries so far a local denial sleeps
\* min(max(retryAfter, baseDelay) * 2^a, maxDelay), which is maxDelay for an
\* unbounded retryAfter, and a remote throttling sleeps
\* min(baseDelay * 2^a, maxDelay).
C31_BackoffClamped ==
  [][StartsSleep =>
       /\ NewDelay <= retryConfig.maxDelay
       /\ ex'.pc = "sleepDenied" =>
            NewDelay =
              IF ex'.last.retryAfter.inf
              THEN retryConfig.maxDelay
              ELSE Min(Max(ex'.last.retryAfter.ms, retryConfig.baseDelay)
                         * Pow2(ex.attempt),
                       retryConfig.maxDelay)
       /\ ex'.pc = "sleepThrottled" =>
            NewDelay = Min(retryConfig.baseDelay * Pow2(ex.attempt),
                           retryConfig.maxDelay)]_vars

\* a denial after one retry, with retryAfter 2: the doubled delay of 4 is cut
\* to a maxDelay of 3
C31_Witness ==
  /\ ex.pc = "sleepDenied"
  /\ ex.attempt = 1
  /\ ~ex.last.retryAfter.inf
  /\ ex.last.retryAfter.ms = 2
  /\ retryConfig.maxDelay = 3
  /\ ex.sleeps[Len(ex.sleeps)] = 3

\* ------------------------------------------------------------------------
\* Several callers on one RateLimitedExecutor
\* ------------------------------------------------------------------------

outsideCc ==
  <<persistVars, stream, scriptVars, seVars, cbVars, ptVars, cmdVars, gnVars,
    jobs, config, rlCall, granted, createdAt, emptiedAt, hint, retryConfig,
    ex, pgVars>>

\* the limiters shared by the callers: one that refills, one that does not
SharedLimiters ==
  {[maxTokens |-> 1, refillRate |-> 1, refillInterval |-> 2],
   [maxTokens |-> 2, refillRate |-> 0, refillInterval |-> 2]}

InitConc ==
  /\ jobs = NoJobs
  /\ session = NoSession
  /\ plan = NoPlan
  /\ NoScript
  /\ SeIdle
  /\ PtIdle
  /\ CmdIdle
  /\ GnIdle
  /\ PgIdle
  /\ config \in SharedLimiters
  /\ now = 0
  /\ states = NoStates
  /\ rlCall = NoCall
  /\ granted = 0
  /\ createdAt = 0
  /\ emptiedAt = -1
  /\ hint = NoHint
  /\ retryConfig \in {rc \in RetryConfig : rc.maxRetries = 1}
  /\ ex = NoExecute
  /\ calls = NoCallers

\* the event loop can run code of caller c: no other call holds the thread
MayRun(c) == \A d \in Callers \ {c} : ~holdsThread(calls[d])

\* caller c calls execute(key, fn, tokens)
CcStart(c) ==
  /\ MayRun(c)
  /\ calls[c].pc = "idle"
  /\ now < MaxTime
  /\ \E key \in Keys :
       calls' = [calls EXCEPT ![c] = enter(states, key, 1)]
  /\ UNCHANGED <<now, states, outsideCc>>

\* the loop head of caller c's call
CcConsume(c) ==
  /\ MayRun(c)
  /\ calls[c].pc = "loop"
  /\ calls' = [calls EXCEPT ![c] = loopHead(calls[c], states, now).ex]
  /\ states' = loopHead(calls[c], states, now).states
  /\ UNCHANGED <<now, outsideCc>>

\* fn of caller c's call settles
CcFn(c) ==
  /\ MayRun(c)
  /\ calls[c].pc = "fn"
  /\ \E o \in {"value", "HTTP 429", "boom"} :
       calls' = [calls EXCEPT ![c] = fnSettles(calls[c], o, now)]
  /\ UNCHANGED <<now, states, outsideCc>>

\* the timer of caller c's backoff sleep fires
CcWake(c) ==
  /\ MayRun(c)
  /\ calls[c].pc \in Sleeping
  /\ now' = Max(now, calls[c].wakeAt)
  /\ calls' = [calls EXCEPT ![c] = wakes(calls[c])]
  /\ UNCHANGED <<states, outsideCc>>

\* caller c has its answer
CcSettled(c) ==
  /\ calls[c].pc \in {"resolved", "rejected"}
  /\ calls' = [calls EXCEPT ![c] = NoExecute]
  /\ UNCHANGED <<now, states, outsideCc>>

\* time passes while some fn is awaited
CcTick ==
  /\ \E c \in Callers : calls[c].pc = "fn"
  /\ now < MaxTime
  /\ now' = now + 1
  /\ UNCHANGED <<states, calls, outsideCc>>

NextConc ==
  \/ \E c \in Callers : CcStart(c)
  \/ \E c \in Callers : CcConsume(c)
  \/ \E c \in Callers : CcFn(c)
  \/ \E c \in Callers : CcWake(c)
  \/ \E c \in Callers : CcSettled(c)
  \/ CcTick

SpecConc == InitConc /\ [][NextConc]_vars

\* some call other than caller c's is in a backoff sleep
OtherSleeps(c) == \E d \in Callers \ {c} : calls[d].pc \in Sleeping

\* caller c's call is at the loop head and its key has the tokens it asks for
HasTokens(c) ==
  /\ calls[c].pc = "loop"
  /\ TokensAt(states, calls[c].key, now) >= calls[c].tokens

MaxTasks == 40

DigitOf(n) == <<"0", "1", "2", "3", "4", "5", "6", "7", "8", "9">>[n + 1]

\* the id of the i-th task of a generated plan
ProgressId(i) == <<"U", "-", DigitOf(i \div 10), DigitOf(i % 10)>>

NotCompleted == <<"failed", "pending", "running", "skipped">>

\* `total` tasks, the first `completed` of them completed, the others going
\* round the remaining statuses from the k-th on
ProgressTasks(total, completed, k) ==
  [i \in 1..total |->
     [id |-> ProgressId(i), deps |-> {},
      status |-> IF i <= completed
                 THEN "completed"
                 ELSE NotCompleted[((i + k) % 4) + 1],
      error |-> ""]]

outsidePg ==
  <<persistVars, stream, scriptVars, seVars, cbVars, ptVars, cmdVars, gnVars,
    jobs, rlVars, exVars>>

InitProgress ==
  /\ jobs = NoJobs
  /\ RlIdle
  /\ ExIdle
  /\ session = NoSession
  /\ plan = NoPlan
  /\ NoScript
  /\ SeIdle
  /\ PtIdle
  /\ CmdIdle
  /\ GnIdle
  /\ \E total \in 0..MaxTasks :
       \E completed \in 0..total :
         \E k \in 0..3 :
           pgTasks = ProgressTasks(total, completed, k)
  /\ pgProgress = <<>>

\* getProgress is called on the session
PgCall ==
  /\ pgProgress = <<>>
  /\ pgProgress' = <<getProgress(SessionOf(pgTasks))>>
  /\ UNCHANGED <<pgTasks, outsidePg>>

\* a task that was not completed is, and the progress read is dropped
PgMarkCompleted ==
  /\ pgProgress # <<>>
  /\ \E i \in 1..Len(pgTasks) :
       /\ pgTasks[i].status # "completed"
       /\ \A j \in 1..(i - 1) : pgTasks[j].status = "completed"
       /\ pgTasks' =
            updateTaskStatus(SessionOf(pgTasks), pgTasks[i].id, "completed", "").tasks
  /\ pgProgress' = <<>>
  /\ UNCHANGED outsidePg

NextProgress == PgCall \/ PgMarkCompleted

SpecProgress == InitProgress /\ [][NextProgress]_vars

\* the tasks of the list in status st
InStatus(tasks, st) == {i \in DOMAIN tasks : tasks[i].status = st}

\* C33: getProgress reports total, completed, failed, pending and running as
\* the number of tasks in each status, and percent as 100 * completed / total
\* rounded to the nearest whole number, 0 when there is no task.
C33_ProgressCountsAndPercent ==
  pgProgress # <<>> =>
    LET p == pgProgress[1]
        n == Len(pgTasks)
        done == Cardinality(InStatus(pgTasks, "completed"))
    IN  /\ p.total = n
        /\ p.completed = done
        /\ p.failed = Cardinality(InStatus(pgTasks, "failed"))
        /\ p.pending = Cardinality(InStatus(pgTasks, "pending"))
        /\ p.running = Cardinality(InStatus(pgTasks, "running"))
        /\ n = 0 => p.percent = 0
        /\ n > 0 => /\ 2 * n * p.percent <= 200 * done + n
                    /\ 200 * done + n < 2 * n * (p.percent + 1)

\* C34: whatever the mix of local denials and throttling errors, one execute
\* call consults the limiter at most maxRetries + 1 times and invokes fn at
\* most maxRetries + 1 times, and once started it resolves or rejects.
C34_ExecuteTerminates ==
  /\ [](/\ ex.consumes <= retryConfig.maxRetries + 1
        /\ Len(ex.fnLog) <= retryConfig.maxRetries + 1)
  /\ (ex.pc # "idle") ~> Settled

\* a call denied once and throttled once that settled after consulting the
\* limiter maxRetries + 1 times
C34_Witness ==
  /\ Settled
  /\ ex.denials >= 1
  /\ Throttled >= 1
  /\ retryConfig.maxRetries = MaxRetriesCfg
  /\ ex.consumes = retryConfig.maxRetries + 1

\* ------------------------------------------------------------------------
\* Waiting for retryAfter
\* ------------------------------------------------------------------------

\* how long the clock runs
MaxWait == 5

outsideHt ==
  <<persistVars, stream, scriptVars, seVars, cbVars, ptVars, cmdVars, gnVars,
    jobs, exVars, pgVars, config, granted, createdAt, emptiedAt>>

\* a limiter that refills
InitHint ==
  /\ jobs = NoJobs
  /\ session = NoSession
  /\ plan = NoPlan
  /\ NoScript
  /\ SeIdle
  /\ PtIdle
  /\ CmdIdle
  /\ GnIdle
  /\ PgIdle
  /\ ExIdle
  /\ config \in {c \in RateLimitConfig : c.refillRate > 0}
  /\ now = 0
  /\ states = NoStates
  /\ rlCall = NoCall
  /\ granted = 0
  /\ createdAt = 0
  /\ emptiedAt = -1
  /\ hint = NoHint

\* a millisecond passes
HtTick ==
  /\ now < MaxWait
  /\ now' = now + 1
  /\ rlCall' = [NoCall EXCEPT !.op = "tick"]
  /\ UNCHANGED <<states, hint, outsideHt>>

\* limiter.consume(key, tokens), tokens within the capacity: a grant on the
\* metered key ends the wait, a denial may start one
HtConsume ==
  \E key \in Keys, tokens \in 1..config.maxTokens :
    LET r == consume(config, states, key, tokens, now)
    IN  /\ states' = r.states
        /\ rlCall' = CallOf("consume", key, tokens, r.result)
        /\ IF key # Metered
           THEN hint' = hint
           ELSE IF r.result.allowed
                THEN hint' = NoHint
                ELSE hint' \in {hint,
                                [active |-> TRUE, tokens |-> tokens,
                                 at |-> now,
                                 retryAfter |-> r.result.retryAfter.ms]}
        /\ UNCHANGED <<now, outsideHt>>

\* limiter.getTokens(key)
HtGetTokens ==
  \E key \in Keys :
    LET r == getTokens(config, states, key, now)
    IN  /\ states' = r.states
        /\ rlCall' = [NoCall EXCEPT !.op = "getTokens", !.key = key,
                                    !.tokensRemaining = r.result]
        /\ UNCHANGED <<now, hint, outsideHt>>

NextHint == HtTick \/ HtConsume \/ HtGetTokens

SpecHint == InitHint /\ [][NextHint]_vars

\* the step repeats the consume waited for, retryAfter or more after its
\* denial
RetriesAfterWait ==
  /\ hint.active
  /\ now >= hint.at + hint.retryAfter
  /\ rlCall'.op = "consume"
  /\ rlCall'.key = Metered
  /\ rlCall'.tokens = hint.tokens

\* C35: after consume(key, n) is denied with n <= maxTokens and
\* refillRate > 0, the same consume made retryAfter later is allowed when no
\* consume on that key was granted in between.
C35_RetryAfterSuffices ==
  [][RetriesAfterWait => rlCall'.allowed]_vars

\* the tasks of the plan a count of n completed could stand for: n distinct
\* ones, each completed in plan.md
CountsEachTaskOnce(n) ==
  \E ids \in SUBSET {plan.tasks[i].id : i \in 1..Len(plan.tasks)} :
    /\ Cardinality(ids) = n
    /\ \A i \in 1..Len(plan.tasks) :
         plan.tasks[i].id \in ids => plan.tasks[i].status = "completed"

\* C36: in single-session mode the completed count passed to onProgress and
\* returned in the ShipResult never exceeds totalTasks and counts each task
\* of the plan at most once, whatever task ids the streamed completion
\* markers carry.
C36_CompletedCountWithinPlan ==
  /\ cbProgress.n > 0 =>
       /\ cbProgress.completed <= cbProgress.total
       /\ CountsEachTaskOnce(cbProgress.completed)
  /\ (seResult.returned /\ seResult.via \in {"result", "error", "onerror"}) =>
       /\ seResult.completedTasks <= seResult.totalTasks
       /\ CountsEachTaskOnce(seResult.completedTasks)

\* C37: onComplete is invoked only for a successful run: only when the
\* orchestrator returns success = true, never when the terminal result event
\* reports failure.
C37_OnCompleteOnlyOnSuccess ==
  cbOnComplete.n > 0 => (seResult.returned /\ seResult.success)

\* ------------------------------------------------------------------------
\* Single-session mode when a write or a callback throws in a handler
\* ------------------------------------------------------------------------

\* the calls of the terminal branches that can throw: the write of the job
\* registry, the write of the session, the callback before resolve
ThrowPoints(ev) ==
  IF ev.type = "result"
  THEN {"updateBackgroundJob", "saveSession", "callback"}
  ELSE {"updateBackgroundJob", "callback"}

\* es.onmessage for a result or error event when one of its calls throws:
\* es.close() has run, what precedes the throwing call has taken effect, the
\* catch of the handler swallows the exception and resolve is not reached
SeOnMessageThrows ==
  /\ UNCHANGED <<scriptVars, outsideSe>>
  /\ sePc = "stream"
  /\ stream # <<>>
  /\ Head(stream).type \in {"result", "error"}
  /\ LET ev == Head(stream)
         st == markRemainingOnSuccess(HandlerState, ev)
     IN  \E at \in ThrowPoints(ev) :
           /\ jobs' = IF at = "updateBackgroundJob"
                      THEN jobs
                      ELSE updateBackgroundJob(
                             jobs, seSession.jobId,
                             IF ev.type = "result" /\ ev.success
                             THEN "completed" ELSE "failed")
           /\ IF ev.type = "result" /\ at = "callback"
              THEN /\ session' = IF session.exists
                                 THEN finalSession(session, ev)
                                 ELSE session
                   /\ plan' = st.plan
                   /\ seCompleted' = st.completed
                   /\ cbOnComplete' = [n |-> cbOnComplete.n + 1,
                                       prUrl |-> ev.prUrl]
              ELSE UNCHANGED <<persistVars, seCompleted, cbOnComplete>>
  /\ sePc' = "closed"
  /\ stream' = <<>>
  /\ UNCHANGED <<seSession, sePending, seTotal, seBase, seDoneIds, seResult,
                 sawRepeat, cbTaskComplete, cbProgress>>

\* es.onerror when the write of the job registry throws: the stream is
\* closed and resolve is not reached
SeOnErrorThrows ==
  /\ UNCHANGED <<scriptVars, outsideSe>>
  /\ sePc = "stream"
  /\ sePc' = "closed"
  /\ stream' = <<>>
  /\ UNCHANGED <<persistVars, jobs, seSession, sePending, seTotal, seBase,
                 seCompleted, seDoneIds, seResult, sawRepeat, cbVars>>

NextThrow ==
  \/ SeStart
  \/ SeFetchFail
  \/ SeFetchBadBody
  \/ SeFetchOk
  \/ SeEmit
  \/ SeOnMessage
  \/ SeOnError
  \/ SeOnMessageThrows
  \/ SeOnErrorThrows

\* every message the stream delivers is handled
SpecThrow ==
  /\ InitSingle
  /\ [][NextThrow]_vars
  /\ WF_vars(SeOnMessage \/ SeOnMessageThrows)

\* a terminal event is the next message to be handled
TerminalDelivered ==
  /\ sePc = "stream"
  /\ stream # <<>>
  /\ Head(stream).type \in {"result", "error"}

\* C38: once the stream delivers a terminal result or error event, or a
\* connection error, the promise of the run resolves, also when a callback
\* or a persistence write invoked while handling it throws; no run stays
\* unresolved on a stream it has closed.
C38_TerminalEventResolves ==
  /\ TerminalDelivered ~> seResult.returned
  /\ (sePc = "closed") ~> seResult.returned

\* ------------------------------------------------------------------------
\* The jobs command next to single-session mode
\* ------------------------------------------------------------------------

\* the job statuses the command knows from the API
ApiJobStatuses ==
  {"pending", "running", "success", "completed", "failed", "no_changes",
   "cancelled"}

\* the local status the command stores for an API status
localStatusOf(apiStatus) ==
  IF apiStatus = "success"
  THEN "completed"
  ELSE IF apiStatus = "failed" THEN "failed" ELSE "running"

\* /jobs: every job listed by the API has its registry entry updated
JobsCommand ==
  /\ \E listed \in [JobIds -> ApiJobStatuses] :
       jobs' = [j \in JobIds |->
                  updateBackgroundJob(jobs, j, localStatusOf(listed[j]))[j]]
  /\ UNCHANGED <<persistVars, stream, scriptVars, seVars, cbVars, outsideSe>>

NextJobs == NextSingle \/ JobsCommand

SpecJobs == InitSingle /\ [][NextJobs]_vars

\* C39: a BackgroundJob's status only moves from running to completed or
\* failed; once an entry is terminal no operation, the jobs command's sync
\* with the server included, puts it back to running.
C39_TerminalJobStaysTerminal ==
  [][\A j \in JobIds :
       /\ jobs[j] = "running" => jobs'[j] \in JobStatuses
       /\ jobs[j] \in {"completed", "failed"} => jobs'[j] # "running"]_vars

\* ------------------------------------------------------------------------
\* Per-task mode under the scheduling of the code
\* ------------------------------------------------------------------------

\* the steps of a runShipEngine call between its entry and its return
RunSteps ==
  \/ PtLoop
  \/ PtFetchFail
  \/ PtFetchBadBody
  \/ PtFetchOk
  \/ PtOnMessage
  \/ PtOnError
  \/ PtAfter
  \/ PtStepPause

\* a session in the middle of shipping: the tasks of a plan in any statuses,
\* plan.md showing the same
InitRun ==
  /\ jobs = NoJobs
  /\ NoScript
  /\ SeIdle
  /\ PtIdle
  /\ CmdIdle
  /\ GnIdle
  /\ PgIdle
  /\ RlIdle
  /\ ExIdle
  /\ \E p \in GeneratedPlans :
       \E st \in [1..Len(p) -> TaskStatuses] :
         /\ session = [createSession EXCEPT
                         !.status = "shipping",
                         !.tasks = TasksWithStatuses(p, st)]
         /\ plan = [exists |-> TRUE,
                    tasks |-> [i \in 1..Len(p) |->
                                 [p[i] EXCEPT !.status = st[i]]]]

NextRun ==
  \/ PtStart
  \/ PtLoop
  \/ PtFetchFail
  \/ PtFetchBadBody
  \/ PtFetchOk
  \/ PtOnMessage
  \/ PtOnError
  \/ PtAfter
  \/ PtStepPause
  \/ PtResolved
  \/ Pause

\* runShipEngine on its own, with /pause from another process: it goes on
\* whenever it can, the execute request is answered, the stream ends, the
\* step prompt is answered
SpecRun == InitRun /\ [][NextRun]_vars /\ WF_vars(RunSteps)

\* tasks the call has started, plus the tasks of the stored session still
\* pending: at entry, the pending tasks
StartedOrPending == ptExecs + CountStatus(session.tasks, "pending")

\* the step is one of the running runShipEngine call
OwnStep == ptPc # "idle" /\ ptPc' # ptPc /\ ptPc' # "idle"

\* C40: runShipEngine terminates and runs each task at most once per
\* invocation: its own steps start only pending tasks, put no task back to
\* pending and never raise the number of tasks started plus tasks pending,
\* so it starts at most as many tasks as were pending at entry, and the call
\* settles.
C40_RunTerminates ==
  /\ [][OwnStep =>
          /\ StartedOrPending' <= StartedOrPending
          /\ ptExecs' > ptExecs =>
               /\ ptExecs' = ptExecs + 1
               /\ \E i \in 1..Len(session.tasks) :
                    /\ session.tasks[i].id = ptNext'[1].id
                    /\ session.tasks[i].status = "pending"
                    /\ session'.tasks[i].status = "running"
          /\ \A i \in 1..Len(session.tasks) :
               session.tasks[i].status # "pending" =>
                 session'.tasks[i].status # "pending"]_vars
  /\ (ptPc # "idle") ~> (ptPc \in {"returned", "rejected"})

\* a call that started both tasks of a plan and returned with all done
C40_Witness ==
  /\ ptPc = "returned"
  /\ ptResult.via = "done"
  /\ ptResult.success
  /\ ptExecs = 2
  /\ Len(session.tasks) = 2

====
